---- MODULE Spec2Model ----
(***************************************************************************)
(* A model of the rank gatekeeper of TMW_Bot (src/cogs/gatekeeper.py):     *)
(* the quiz result verifier, the weekly cooldown tracker and the rank      *)
(* progression engine that rewards roles and unlocks combination ranks.    *)
(***************************************************************************)
EXTENDS Integers, Sequences, FiniteSets, TLC

VARIABLES
    quiz_data,      \* verifier: the rank entry whose rules are applied
    quiz_result,    \* verifier: the report fetched from the quiz service
    verdict,        \* verifier: what verify_quiz_settings returned
    now,            \* utcnow(), in ticks; tick 0 is a Monday 00:00 UTC
    quiz_attempts,  \* table quiz_attempts: rows in insertion order
    passed_quizzes, \* table passed_quizzes: a set of rows (primary key)
    roles,          \* member.roles of every member of the guild
    position,       \* role.position of every rank role of the guild
    outcome,        \* what the last handler did: its result and its messages
    user_threads,   \* table user_threads: the row of every user, <<>> when none
    threads,        \* the quiz threads of the guild, by thread id
    sweeper,        \* the inactive_quiz_thread_deleter loop: running or failed
    tasks,          \* the calls of level_up_routine under way, each at an await
    kotoba_request_lock, \* the evaluation that holds the lock, None when free
    selections      \* the calls of the menu callback under way, each at an await

verify_vars == <<quiz_data, quiz_result, verdict>>
engine_vars == <<now, quiz_attempts, passed_quizzes, roles, position, outcome,
                 user_threads, threads>>
background_vars == <<sweeper, tasks, kotoba_request_lock, selections>>
vars == <<quiz_data, quiz_result, verdict, now, quiz_attempts, passed_quizzes, roles,
          position, outcome, user_threads, threads, sweeper, tasks, kotoba_request_lock,
          selections>>

(***************************************************************************)
(* Python values.  None stands for a setting the configuration leaves      *)
(* unset; an unset deck_range is the empty tuple, which is falsy as well.  *)
(***************************************************************************)
None == "None"

Truthy(v) == v # None

NoRange == <<>>

(***************************************************************************)
(* The reasons verify_quiz_settings returns.  A reason is a tuple: its     *)
(* text, then the values the f-string formats into it.                     *)
(***************************************************************************)
ReasonParticipants == <<"Quiz failed due to multiple people participating.">>
ReasonShuffle == <<"Quiz failed due to the shuffle setting being activated.">>
ReasonLoaded == <<"Quiz failed due to being loaded.">>
ReasonMultipleChoice == <<"Quiz failed due to being set to multiple choice.">>
ReasonWrongStart == <<"Quiz failed due to having the wrong start index.">>
ReasonWrongEnd == <<"Quiz failed due to having the wrong end index.">>
ReasonNoIndex == <<"Quiz failed due to not having an index specified.">>
ReasonHasStart == <<"Quiz failed due to having a start index.">>
ReasonHasEnd == <<"Quiz failed due to having an end index.">>
ReasonColor == <<"Foreground color does not match required color.">>
ReasonEffect == <<"Effect does not match required effect.">>
ReasonScoreLimit == <<"Set score limit and required score limit don't match.">>
ReasonTimeLimit == <<"Set answer time does match required answer time.">>
ReasonFont == <<"Set font does not match required font.">>
ReasonFontSize == <<"Set font size does not match required font size.">>
ReasonMissed(score, answer_count) == <<"Failed too many questions.", score, answer_count>>
ReasonScore(score, answer_count) == <<"Not enough questions answered.", score, answer_count>>
ReasonPassed(member, name) == <<"has passed the quiz!", member, name>>

Returned(ok, reason) == [raised |-> FALSE, ok |-> ok, reason |-> reason]

\* quiz_result["scores"][0] of an empty list: the call raises, nothing is returned.
RaisedIndexError == [raised |-> TRUE, ok |-> FALSE, reason |-> <<"IndexError">>]

NotVerified == [raised |-> FALSE, ok |-> FALSE, reason |-> <<"pending">>]

(***************************************************************************)
(* verify_quiz_settings: the index check of one deck, "ok" when it passes. *)
(***************************************************************************)
HasKey(deck, key) == key \in DOMAIN deck

IndexSpecifiedCheck(deck, start_index, end_index) ==
    IF ~HasKey(deck, "startIndex") THEN ReasonNoIndex
    ELSE IF deck.startIndex # start_index THEN ReasonWrongStart
    ELSE IF ~HasKey(deck, "endIndex") THEN ReasonNoIndex
    ELSE IF deck.endIndex # end_index THEN ReasonWrongEnd
    ELSE <<"ok">>

\* A variant that looks at the start index only.
IndexUnspecifiedCheckStartOnly(deck) ==
    IF HasKey(deck, "startIndex") /\ deck.startIndex # 0 THEN ReasonHasStart
    ELSE <<"ok">>

IndexUnspecifiedCheck(deck) ==
    IF HasKey(deck, "startIndex") /\ deck.startIndex # 0 THEN ReasonHasStart
    ELSE IF HasKey(deck, "endIndex") /\ deck.endIndex # 0 THEN ReasonHasEnd
    ELSE <<"ok">>

DeckIndexCheck(deck, deck_range) ==
    IF deck_range # NoRange
    THEN IndexSpecifiedCheck(deck, deck_range[1], deck_range[2])
    ELSE IndexUnspecifiedCheck(deck)

\* The for loop over the decks returns at the first deck whose check fails.
FirstIndexFailure(decks, deck_range) ==
    LET failing == {i \in 1..Len(decks) : DeckIndexCheck(decks[i], deck_range) # <<"ok">>}
    IN IF failing = {} THEN <<"ok">>
       ELSE DeckIndexCheck(decks[CHOOSE i \in failing : \A j \in failing : i <= j], deck_range)

AnyMultipleChoice(decks) == \E i \in 1..Len(decks) : decks[i].mc

ParticipantCheckFails(user_count) == user_count > 1

\* A variant that compares the colour even when the rank sets none.
ColorCheckFailsUnguarded(foreground_color, settings) ==
    settings.fontColor # foreground_color

ColorCheckFails(foreground_color, settings) ==
    Truthy(foreground_color) /\ settings.fontColor # foreground_color

EffectCheckFails(effect, settings) ==
    Truthy(effect) /\ settings.effect # effect

\* A variant that rejects the answer time of the rank itself.
TimeLimitCheckFailsInclusive(answer_time_limit, settings) ==
    answer_time_limit <= settings.answerTimeLimitInMs

TimeLimitCheckFails(answer_time_limit, settings) ==
    answer_time_limit < settings.answerTimeLimitInMs

FontCheckFails(font, settings) ==
    Truthy(font) /\ font # settings.font

FontSizeCheckFails(font_size, settings) ==
    Truthy(font_size) /\ font_size # settings.fontSize

MissedCheckFails(failed_question_count, fail_count) ==
    failed_question_count >= fail_count

verify_quiz_settings(data, result, member) ==
    LET answer_count == data.score_limit
        answer_time_limit == data.time_limit
        font == data.font
        font_size == data.font_size
        fail_count == data.max_missed
        foreground_color == data.foreground
        effect == data.effect
        settings == result.settings
        user_count == Len(result.participants)
        index_failure == FirstIndexFailure(result.decks, data.deck_range)
    IN IF ParticipantCheckFails(user_count) THEN Returned(FALSE, ReasonParticipants)
       ELSE IF ~settings.shuffle THEN Returned(FALSE, ReasonShuffle)
       ELSE IF result.isLoaded THEN Returned(FALSE, ReasonLoaded)
       ELSE IF AnyMultipleChoice(result.decks) THEN Returned(FALSE, ReasonMultipleChoice)
       ELSE IF index_failure # <<"ok">> THEN Returned(FALSE, index_failure)
       ELSE IF ColorCheckFails(foreground_color, settings) THEN Returned(FALSE, ReasonColor)
       ELSE IF EffectCheckFails(effect, settings) THEN Returned(FALSE, ReasonEffect)
       ELSE IF answer_count # settings.scoreLimit THEN Returned(FALSE, ReasonScoreLimit)
       ELSE IF TimeLimitCheckFails(answer_time_limit, settings)
            THEN Returned(FALSE, ReasonTimeLimit)
       ELSE IF FontCheckFails(font, settings) THEN Returned(FALSE, ReasonFont)
       ELSE IF FontSizeCheckFails(font_size, settings) THEN Returned(FALSE, ReasonFontSize)
       ELSE IF result.scores = <<>> THEN RaisedIndexError
       ELSE LET score == result.scores[1].score
                failed_question_count == result.questions - score
            IN IF MissedCheckFails(failed_question_count, fail_count)
               THEN Returned(FALSE, ReasonMissed(score, answer_count))
               ELSE IF answer_count # score
                    THEN Returned(FALSE, ReasonScore(score, answer_count))
               ELSE Returned(TRUE, ReasonPassed(member, data.name))

(***************************************************************************)
(* The configuration: gatekeeper_settings['rank_structure'] of one guild.  *)
(* Quiz ranks carry the rules of a quiz; combination ranks carry the list  *)
(* of quizzes that unlock them.  The ranks are listed in declaration       *)
(* order.  A command is the list of its words; a rank without a command    *)
(* has the empty list.                                                     *)
(***************************************************************************)
Guild == "g1"

\* A second guild with the same rank structure and a quiz channel of its own.
OtherGuild == "g2"

Guilds == <<Guild, OtherGuild>>

Users == {"u1", "u2"}

\* KOTOBA_BOT_ID: the author of the quiz reports.
KOTOBA_BOT_ID == "kotoba"

\* self.bot.user
BOT_USER == "tmw"

QuizRank(name, deck, deck_range, rank_to_get, require_role, no_timeout) ==
    [ name |-> name, command |-> <<"k!quiz", deck>>, decks |-> {deck},
      deck_range |-> deck_range, score_limit |-> 2, time_limit |-> 2, max_missed |-> 2,
      font |-> "f1", font_size |-> None, foreground |-> None, effect |-> None,
      rank_to_get |-> rank_to_get, require_role |-> require_role,
      no_timeout |-> no_timeout, combination_rank |-> FALSE, quizzes_required |-> <<>> ]

CombinationRank(name, quizzes_required, rank_to_get) ==
    [ name |-> name, command |-> <<>>, decks |-> {},
      deck_range |-> NoRange, score_limit |-> 0, time_limit |-> 0, max_missed |-> 0,
      font |-> None, font_size |-> None, foreground |-> None, effect |-> None,
      rank_to_get |-> rank_to_get, require_role |-> None,
      no_timeout |-> TRUE, combination_rank |-> TRUE, quizzes_required |-> quizzes_required ]

rank_structure ==
    << QuizRank("Bronze", "bronze", NoRange, "Bronze", None, FALSE),
       QuizRank("SilverVocab", "svocab", NoRange, None, "Bronze", FALSE),
       QuizRank("SilverGrammar", "sgrammar", <<1, 2>>, None, None, TRUE),
       CombinationRank("SilverByGrammar", <<"Bronze", "SilverGrammar">>, "Silver"),
       CombinationRank("Silver", <<"SilverVocab">>, "Silver"),
       CombinationRank("Gold", <<"SilverVocab", "SilverGrammar">>, "Gold") >>

RankIndexes == 1..Len(rank_structure)

\* guild.get_role: every role the configuration names exists in the guild.
GuildRoles == {"Bronze", "Silver", "Gold"}

get_role(role_id) == IF role_id \in GuildRoles THEN role_id ELSE None

get_all_quiz_roles ==
    { get_role(rank_structure[i].rank_to_get) :
        i \in {j \in RankIndexes : rank_structure[j].rank_to_get # None} }

\* The list comprehensions of reward_user and already_owns_higher_or_same_role
\* drop the roles the guild no longer has.
ExistingQuizRoles == get_all_quiz_roles \ {None}

\* A variant that gives every rank a cooldown.
rank_always_has_cooldown(rank_name) == TRUE

\* A variant that reads no_timeout the wrong way round.
rank_is_exempt(rank_name) ==
    LET named == {i \in RankIndexes : rank_structure[i].name = rank_name}
    IN IF named = {} THEN FALSE
       ELSE rank_structure[CHOOSE i \in named : \A j \in named : i <= j].no_timeout

rank_has_cooldown(rank_name) ==
    LET named == {i \in RankIndexes : rank_structure[i].name = rank_name}
    IN IF named = {} THEN FALSE
       ELSE ~rank_structure[CHOOSE i \in named : \A j \in named : i <= j].no_timeout

(***************************************************************************)
(* Time.  A tick is one hour; datetime.weekday() numbers Monday 0 and      *)
(* Sunday 6.                                                               *)
(***************************************************************************)
TicksPerDay == 24

DayOf(dt) == dt \div TicksPerDay

weekday(dt) == DayOf(dt) % 7

\* datetime(year, month, day, 0, 0, 0): the midnight that starts dt's day.
MidnightOf(dt) == DayOf(dt) * TicksPerDay

\* A variant without the rule that turns 0 days into 7.
DaysUntilSundayOrToday(dt) == (6 - weekday(dt)) % 7

DaysUntilSunday(dt) ==
    LET days_until_sunday == (6 - weekday(dt)) % 7
    IN IF days_until_sunday = 0 THEN 7 ELSE days_until_sunday

get_next_sunday_midnight_from(dt) ==
    LET next_sunday == dt + DaysUntilSunday(dt) * TicksPerDay
    IN MidnightOf(next_sunday)

(***************************************************************************)
(* The tables.  passed_quizzes has the primary key (guild, user, quiz), so *)
(* it is a set; quiz_attempts has an autoincrement id, so it is a list.    *)
(***************************************************************************)
ADD_PASSED_QUIZ(table, guild_id, user_id, quiz_name) ==
    table \cup {<<guild_id, user_id, quiz_name>>}

GET_PASSED_QUIZZES(table, guild_id, user_id) ==
    {row[3] : row \in {r \in table : r[1] = guild_id /\ r[2] = user_id}}

\* A variant that keeps one row per (guild, user, quiz): the new attempt
\* takes the place of the recorded one.
ADD_QUIZ_ATTEMPT_ONCE(table, guild_id, user_id, quiz_name, created_at) ==
    Append(SelectSeq(table, LAMBDA row : ~(/\ row.guild_id = guild_id
                                           /\ row.user_id = user_id
                                           /\ row.quiz_name = quiz_name)),
           [guild_id |-> guild_id, user_id |-> user_id,
            quiz_name |-> quiz_name, created_at |-> created_at])

ADD_QUIZ_ATTEMPT(table, guild_id, user_id, quiz_name, created_at) ==
    Append(table, [guild_id |-> guild_id, user_id |-> user_id,
                   quiz_name |-> quiz_name, created_at |-> created_at])

\* A variant that orders the rows the other way: ORDER BY created_at ASC.
GET_FIRST_QUIZ_ATTEMPT(table, guild_id, user_id, quiz_name) ==
    LET matching == {i \in 1..Len(table) :
                        /\ table[i].guild_id = guild_id
                        /\ table[i].user_id = user_id
                        /\ table[i].quiz_name = quiz_name}
    IN IF matching = {} THEN <<>>
       ELSE LET first == CHOOSE i \in matching :
                             \A j \in matching : table[i].created_at <= table[j].created_at
            IN <<table[first].quiz_name, table[first].created_at>>

\* ORDER BY created_at DESC LIMIT 1: <<>> when no row matches, else the
\* (quiz_name, created_at) of a row with the greatest created_at.
GET_LAST_QUIZ_ATTEMPT(table, guild_id, user_id, quiz_name) ==
    LET matching == {i \in 1..Len(table) :
                        /\ table[i].guild_id = guild_id
                        /\ table[i].user_id = user_id
                        /\ table[i].quiz_name = quiz_name}
    IN IF matching = {} THEN <<>>
       ELSE LET last == CHOOSE i \in matching :
                            \A j \in matching : table[j].created_at <= table[i].created_at
            IN <<table[last].quiz_name, table[last].created_at>>

(***************************************************************************)
(* is_on_cooldown and is_on_cooldown_create: whether the member is inside  *)
(* the weekly window of the quiz, and the time the notice announces.       *)
(***************************************************************************)
NotOnCooldown == [on_cooldown |-> FALSE, next_attempt |-> <<>>]

\* A variant that keeps the cooldown at the boundary itself.
CooldownComparisonInclusive(at, next_sunday_midnight) == at <= next_sunday_midnight

CooldownComparison(at, next_sunday_midnight) == at < next_sunday_midnight

is_on_cooldown(table, at, guild_id, user_id, quiz_name, has_cooldown) ==
    IF ~has_cooldown THEN NotOnCooldown
    ELSE LET last_attempt == GET_LAST_QUIZ_ATTEMPT(table, guild_id, user_id, quiz_name)
         IN IF last_attempt = <<>> THEN NotOnCooldown
            ELSE LET next_sunday_midnight == get_next_sunday_midnight_from(last_attempt[2])
                 IN IF CooldownComparison(at, next_sunday_midnight)
                    THEN [on_cooldown |-> TRUE, next_attempt |-> <<next_sunday_midnight>>]
                    ELSE NotOnCooldown

\* A variant that finds nobody on cooldown.
is_never_on_cooldown_create(table, at, guild_id, user_id, quiz_name, has_cooldown) ==
    NotOnCooldown

is_on_cooldown_create(table, at, guild_id, user_id, quiz_name, has_cooldown) ==
    IF ~has_cooldown THEN NotOnCooldown
    ELSE LET last_attempt == GET_LAST_QUIZ_ATTEMPT(table, guild_id, user_id, quiz_name)
         IN IF last_attempt = <<>> THEN NotOnCooldown
            ELSE LET next_sunday_midnight == get_next_sunday_midnight_from(last_attempt[2])
                 IN IF at < next_sunday_midnight
                    THEN [on_cooldown |-> TRUE, next_attempt |-> <<next_sunday_midnight>>]
                    ELSE NotOnCooldown

\* timedelta(days=6)
NextAttemptDays == 6

\* get_next_attempt_time: the time list_role_commands shows, <<>> for None.
get_next_attempt_time(table, guild_id, user_id, quiz_name) ==
    LET last_attempt == GET_LAST_QUIZ_ATTEMPT(table, guild_id, user_id, quiz_name)
    IN IF last_attempt = <<>> THEN <<>>
       ELSE <<last_attempt[2] + NextAttemptDays * TicksPerDay>>

\* list_role_commands: the cooldown line of the field of one rank that has
\* a command, as the pair is_on_cooldown returns.
list_role_commands(table, at, guild_id, user_id, rank) ==
    LET next_attempt_time == get_next_attempt_time(table, guild_id, user_id, rank.name)
        shown == IF next_attempt_time # <<>> /\ next_attempt_time[1] < at THEN <<>>
                 ELSE next_attempt_time
    IN IF shown # <<>> /\ ~rank.combination_rank
       THEN [on_cooldown |-> TRUE, next_attempt |-> shown]
       ELSE NotOnCooldown

(***************************************************************************)
(* Messages.  The content is a list of words; a quiz report is a message   *)
(* of the quiz bot whose embed title says "Ended" and whose last field     *)
(* links the report that extract_quiz_result_from_id fetches.              *)
(***************************************************************************)
restricted_quiz_names == <<"svocab", "sgrammar">>

Words(content) == {content[i] : i \in 1..Len(content)}

\* 'k!q' in message.content.lower()
HasQuizPrefix(content) == "k!quiz" \in Words(content)

NoChannel == 0

Message(id, author, author_bot, in_guild, channel, content, embed_title, fetch_ok, fetched) ==
    [ id |-> id, author |-> author, author_bot |-> author_bot, in_guild |-> in_guild,
      channel |-> channel, content |-> content, embed_title |-> embed_title,
      fetch_ok |-> fetch_ok, fetched |-> fetched ]

\* A message of the quiz bot that ends a quiz and links its report.
EndedReport(id, quiz_result_fetched) ==
    Message(id, KOTOBA_BOT_ID, TRUE, TRUE, NoChannel, <<>>, "Ended", TRUE, quiz_result_fetched)

\* A message a member types: it has no embed.
TypedCommand(id, user, channel, content) ==
    Message(id, user, FALSE, TRUE, channel, content, None, FALSE, <<>>)

\* get_quiz_id: the report id when the first embed's title says "Ended".
get_quiz_id(message) == message.embed_title = "Ended"

is_restricted_quiz(message) ==
    LET hits == {i \in 1..Len(restricted_quiz_names) :
                    restricted_quiz_names[i] \in Words(message.content)}
    IN IF hits = {} THEN <<None, FALSE>>
       ELSE <<restricted_quiz_names[CHOOSE i \in hits : \A j \in hits : i <= j], TRUE>>

is_valid_quiz(message) ==
    LET hits == {i \in RankIndexes : /\ rank_structure[i].command # <<>>
                                     /\ message.content = rank_structure[i].command}
    IN IF hits = {} THEN <<FALSE, None>>
       ELSE <<TRUE, rank_structure[CHOOSE i \in hits : \A j \in hits : i <= j].name>>

\* thread_rows: the row of table user_threads of every user, <<>> when none.
is_in_levelup_channel(message, thread_rows) ==
    LET thread_id == thread_rows[message.author]
    IN thread_id # <<>> /\ message.channel = thread_id[1]

\* is_command_input_valid: whether the message may go on, the reason of the
\* two-minute timeout if it may not, and the notices sent to the channel.
CommandInput(valid, timeout_reason, sent) ==
    [valid |-> valid, timeout_reason |-> timeout_reason, sent |-> sent]

is_command_input_valid(message, table, at, thread_rows) ==
    IF message.author_bot THEN CommandInput(TRUE, None, <<>>)
    ELSE LET restricted == is_restricted_quiz(message)
             in_levelup_channel == is_in_levelup_channel(message, thread_rows)
             valid_quiz == is_valid_quiz(message)
             has_cooldown == rank_has_cooldown(valid_quiz[2])
             cooldown == is_on_cooldown(table, at, Guild, message.author,
                                        valid_quiz[2], has_cooldown)
         IN IF cooldown.on_cooldown
            THEN CommandInput(FALSE, "Quiz on cooldown.",
                              <<<<"channel", "once per week">> \o cooldown.next_attempt>>)
            ELSE IF in_levelup_channel /\ ~valid_quiz[1]
            THEN CommandInput(FALSE, "Invalid quiz attempt.",
                              <<<<"channel", "copy and paste the command exactly">>>>)
            ELSE IF restricted[2] /\ (~in_levelup_channel \/ ~valid_quiz[1])
            THEN CommandInput(FALSE, "Restricted quiz attempt.",
                              <<<<"channel", "quiz is restricted", restricted[1]>>>>)
            ELSE IF valid_quiz[1] /\ ~in_levelup_channel
            THEN CommandInput(FALSE, "Invalid channel for quiz attempt.",
                              <<<<"channel", "use the level-up channels">>>>)
            ELSE CommandInput(TRUE, None, <<>>)

(***************************************************************************)
(* get_corresponding_quiz_data: the first rank whose deck names and index  *)
(* mode are those of the report; <<>> when there is none.                  *)
(***************************************************************************)
\* A variant that matches the deck names only.
RECURSIVE first_rank_by_decks(_, _, _, _)
first_rank_by_decks(structure, i, deck_names, index_specified) ==
    IF i > Len(structure) THEN <<>>
    ELSE IF structure[i].decks = deck_names THEN <<structure[i]>>
    ELSE first_rank_by_decks(structure, i + 1, deck_names, index_specified)

\* The for loop over the ranks, from the i-th rank on: it returns at the
\* first rank that matches.
RECURSIVE first_matching_rank(_, _, _, _)
first_matching_rank(structure, i, deck_names, index_specified) ==
    IF i > Len(structure) THEN <<>>
    ELSE LET rank == structure[i]
             index_required == rank.deck_range # NoRange
         IN IF rank.decks = deck_names /\ index_required = index_specified
            THEN <<rank>>
            ELSE first_matching_rank(structure, i + 1, deck_names, index_specified)

\* The function for any rank structure of a guild.
quiz_data_in(structure, result) ==
    IF ~HasKey(result.decks[1], "shortName") \/ result.decks[1].shortName = "" THEN <<>>
    ELSE LET deck_names == {result.decks[i].shortName : i \in 1..Len(result.decks)}
             index_specified == /\ HasKey(result.decks[1], "startIndex")
                                /\ result.decks[1].startIndex # 0
         IN first_matching_rank(structure, 1, deck_names, index_specified)

get_corresponding_quiz_data(result) == quiz_data_in(rank_structure, result)

(***************************************************************************)
(* The rank hierarchy.  member.roles is read as the roles the member has   *)
(* when the line runs.                                                     *)
(***************************************************************************)
\* Variants: one that never finds a role held, one that takes only a
\* strictly higher role for held.
owns_no_role(rank_to_get_id, member_roles, pos) == FALSE

owns_higher_role(rank_to_get_id, member_roles, pos) ==
    get_role(rank_to_get_id) # None
        /\ \E role \in member_roles :
               role \in ExistingQuizRoles /\ pos[role] > pos[get_role(rank_to_get_id)]

\* A variant that recognises the very role of the rank only.
owns_same_role(rank_to_get_id, member_roles, pos) ==
    get_role(rank_to_get_id) # None /\ get_role(rank_to_get_id) \in member_roles

already_owns_higher_or_same_role(rank_to_get_id, member_roles, pos) ==
    LET role_to_get == get_role(rank_to_get_id)
    IN IF role_to_get = None THEN FALSE
       ELSE \E role \in member_roles :
               role \in ExistingQuizRoles /\ pos[role] >= pos[role_to_get]

Announcement(member, role) == <<"announce", member, "is now a", role>>

\* A variant that adds the role and removes none.
AddRole(member_roles, role_to_get) == member_roles \cup {role_to_get}

\* member.remove_roles(*roles) and member.add_roles(role_to_get)
SwapRoles(member_roles, role_to_get) == (member_roles \ ExistingQuizRoles) \cup {role_to_get}

\* A variant that is content with one of the required quizzes.
SomeRequiredPassed(rank, earned_ranks) ==
    \E i \in 1..Len(rank.quizzes_required) : rank.quizzes_required[i] \in earned_ranks

AllRequiredPassed(rank, earned_ranks) ==
    \A i \in 1..Len(rank.quizzes_required) : rank.quizzes_required[i] \in earned_ranks

\* The combination ranks, reversed.
RECURSIVE Reversed(_)
Reversed(s) == IF s = <<>> THEN <<>> ELSE Append(Reversed(Tail(s)), Head(s))

combination_ranks == SelectSeq(rank_structure, LAMBDA rank_data : rank_data.combination_rank)

\* w is what the handler has done so far: the member's roles, the
\* passed_quizzes table, the messages sent and the roles granted, in order.
RECURSIVE reward_user(_, _, _, _)
RECURSIVE check_if_combination_rank_earned(_, _, _)
RECURSIVE CombinationLoop(_, _, _, _, _)
RECURSIVE CombinationLoopSkipping(_, _, _, _, _)

reward_user(w, member, rank, pos) ==
    LET recorded == [w EXCEPT !.passed = ADD_PASSED_QUIZ(@, Guild, member, rank.name)]
    IN IF rank.rank_to_get # None
       THEN [recorded EXCEPT !.roles = SwapRoles(@, get_role(rank.rank_to_get)),
                             !.granted = Append(@, get_role(rank.rank_to_get))]
       ELSE check_if_combination_rank_earned(recorded, member, pos)

\* A variant that passes over a rank the member stands at or above and goes
\* on with the ranks declared before it.
CombinationLoopSkipping(w, member, ranks, earned_ranks, pos) ==
    IF ranks = <<>> THEN w
    ELSE LET rank == Head(ranks)
         IN IF already_owns_higher_or_same_role(rank.rank_to_get, w.roles, pos)
            THEN CombinationLoopSkipping(w, member, Tail(ranks), earned_ranks, pos)
            ELSE IF AllRequiredPassed(rank, earned_ranks)
            THEN LET rewarded == reward_user(w, member, rank, pos)
                     announced == [rewarded EXCEPT !.sent =
                                      Append(@, Announcement(member, get_role(rank.rank_to_get)))]
                 IN CombinationLoopSkipping(announced, member, Tail(ranks), earned_ranks, pos)
            ELSE CombinationLoopSkipping(w, member, Tail(ranks), earned_ranks, pos)

CombinationLoop(w, member, ranks, earned_ranks, pos) ==
    IF ranks = <<>> THEN w
    ELSE LET rank == Head(ranks)
         IN IF already_owns_higher_or_same_role(rank.rank_to_get, w.roles, pos) THEN w
            ELSE IF AllRequiredPassed(rank, earned_ranks)
            THEN LET rewarded == reward_user(w, member, rank, pos)
                     announced == [rewarded EXCEPT !.sent =
                                      Append(@, Announcement(member, get_role(rank.rank_to_get)))]
                 IN CombinationLoop(announced, member, Tail(ranks), earned_ranks, pos)
            ELSE CombinationLoop(w, member, Tail(ranks), earned_ranks, pos)

check_if_combination_rank_earned(w, member, pos) ==
    CombinationLoop(w, member, Reversed(combination_ranks),
                    GET_PASSED_QUIZZES(w.passed, Guild, member), pos)

(***************************************************************************)
(* level_up_routine, the on_message listener.  Its result is the tables    *)
(* and roles it leaves and an outcome: how the handler ended, what it      *)
(* sent and which roles it granted.                                        *)
(***************************************************************************)
Outcome(kind, message, member, quiz, verified, next_attempt, timeout_reason, sent, granted) ==
    [ kind |-> kind, message |-> message, member |-> member, quiz |-> quiz,
      verified |-> verified, next_attempt |-> next_attempt,
      timeout_reason |-> timeout_reason, sent |-> sent, granted |-> granted ]

NoOutcome == Outcome("None", <<>>, None, None, "none", <<>>, None, <<>>, <<>>)

\* An early return: nothing is written and nothing is sent.
Dropped(kind, message) ==
    Outcome(kind, message.id, None, None, "none", <<>>, None, <<>>, <<>>)

Effect(attempts, passed, member_roles, result) ==
    [ quiz_attempts |-> attempts, passed_quizzes |-> passed, roles |-> member_roles,
      outcome |-> result ]

VerifiedAs(verified) == IF verified.ok THEN "ok" ELSE "failed"

\* Lines 520-551: what follows the verdict of verify_quiz_settings.
AfterVerdict(message, member, data, verified, at, attempts, passed, member_roles, pos) ==
    LET ended(kind, next_attempt, sent, granted) ==
            Outcome(kind, message.id, member, data.name, VerifiedAs(verified),
                    next_attempt, None, sent, granted)
    IN IF already_owns_higher_or_same_role(data.rank_to_get, member_roles[member], pos)
       THEN Effect(attempts, passed, member_roles,
                   ended("SkippedAlreadyHeld", <<>>, <<>>, <<>>))
       ELSE IF /\ verified.ok
               /\ data.require_role # None
               /\ get_role(data.require_role) \notin member_roles[member]
       THEN Effect(attempts, passed, member_roles,
                   ended("RequiredRoleMissing", <<>>,
                         <<<<"channel", member, "You need the role", data.require_role>>>>,
                         <<>>))
       ELSE IF verified.ok
       THEN LET rewarded == reward_user([roles |-> member_roles[member], passed |-> passed,
                                         sent |-> <<>>, granted |-> <<>>],
                                        member, data, pos)
            IN Effect(attempts, rewarded.passed,
                      [member_roles EXCEPT ![member] = rewarded.roles],
                      ended("Rewarded", <<>>,
                            rewarded.sent \o <<<<"announce">> \o verified.reason,
                                               <<"dm", member, "Congratulations!", data.name>>>>,
                            rewarded.granted))
       ELSE IF rank_has_cooldown(data.name)
       THEN LET next_sunday_midnight == get_next_sunday_midnight_from(at)
            IN Effect(ADD_QUIZ_ATTEMPT(attempts, Guild, member, data.name, at),
                      passed, member_roles,
                      ended("CooldownCharged", <<next_sunday_midnight>>,
                            << <<"channel", member, "registered attempt", data.name,
                                 next_sunday_midnight>>,
                               <<"dm", member, "unsuccessful">> \o verified.reason
                                   \o <<next_sunday_midnight>> >>,
                            <<>>))
       ELSE Effect(attempts, passed, member_roles, ended("Rejected", <<>>, <<>>, <<>>))

\* A variant that records an attempt of the first member when the fetch fails.
FetchFailedCharged(message, at, attempts, passed, member_roles) ==
    Effect(ADD_QUIZ_ATTEMPT(attempts, Guild, "u1", "Bronze", at), passed, member_roles,
           Dropped("FetchRaised", message))

\* extract_quiz_result_from_id raises (no answer, or a body that is no JSON):
\* the exception leaves the listener before anything is written.
FetchFailed(message, at, attempts, passed, member_roles) ==
    Effect(attempts, passed, member_roles, Dropped("FetchRaised", message))

level_up_routine(message, at, attempts, passed, member_roles, pos, thread_rows) ==
    LET same(result) == Effect(attempts, passed, member_roles, result)
    IN IF message.author = BOT_USER THEN same(Dropped("Ignored", message))
       ELSE IF ~message.in_guild THEN same(Dropped("Ignored", message))
       ELSE IF message.author # KOTOBA_BOT_ID /\ ~HasQuizPrefix(message.content)
            THEN same(Dropped("Ignored", message))
       ELSE LET input == is_command_input_valid(message, attempts, at, thread_rows)
            IN IF ~input.valid
               THEN same(Outcome("InvalidCommand", message.id, message.author, None, "none",
                                 <<>>, input.timeout_reason, input.sent, <<>>))
               ELSE IF ~get_quiz_id(message) THEN same(Dropped("NoReport", message))
               ELSE IF ~message.fetch_ok
                    THEN FetchFailed(message, at, attempts, passed, member_roles)
               ELSE LET result == message.fetched
                        matched == get_corresponding_quiz_data(result)
                    IN IF matched = <<>> THEN same(Dropped("NoMatchingRank", message))
                       ELSE IF result.participants = <<>>
                            THEN same(Dropped("Raised", message))
                       ELSE LET member == result.participants[1].discordUser.id
                                verified == verify_quiz_settings(matched[1], result, member)
                            IN IF verified.raised THEN same(Dropped("Raised", message))
                               ELSE AfterVerdict(message, member, matched[1], verified, at,
                                                 attempts, passed, member_roles, pos)

(***************************************************************************)
(* level_up_routine in steps.  The listener runs as a task of the event    *)
(* loop: it gives way to other tasks at every await that waits for the     *)
(* database, the quiz service or Discord, and runs alone in between.  An   *)
(* evaluation is one call of the listener for a report of the quiz bot;    *)
(* pc names the await it is suspended at.                                  *)
(***************************************************************************)
Evaluations == {"e1", "e2"}

Task(pc, message, member, quiz, rank, caller, removing, earned, combos, kind) ==
    [ pc |-> pc, message |-> message, member |-> member, quiz |-> quiz, rank |-> rank,
      caller |-> caller, removing |-> removing, earned |-> earned, combos |-> combos,
      kind |-> kind ]

IdleTask == Task("idle", <<>>, None, None, None, None, <<>>, {}, <<>>, "none")

\* The selections in the quiz menu whose callback is under way.
Selections == {"s1", "s2"}

Selection(pc, user, rank, thread, kind) ==
    [pc |-> pc, user |-> user, rank |-> rank, thread |-> thread, kind |-> kind]

IdleSelection == Selection("idle", None, None, 0, "none")

NoTasks ==
    /\ tasks = [e \in Evaluations |-> IdleTask]
    /\ kotoba_request_lock = None
    /\ selections = [s \in Selections |-> IdleSelection]

RankEntry(name) == rank_structure[CHOOSE i \in RankIndexes : rank_structure[i].name = name]

\* [role for role in get_all_quiz_roles(guild) if role is not None], a list
\* with one entry per rank that grants a role: remove_roles sends one
\* request for every entry.
QuizRoleList ==
    LET granting == SelectSeq(rank_structure, LAMBDA rank : get_role(rank.rank_to_get) # None)
    IN [i \in 1..Len(granting) |-> get_role(granting[i].rank_to_get)]

\* A variant of the lock that every task finds free.
lock_never_held(lock) == FALSE

\* asyncio.Lock.locked(): a task that enters "async with" while the lock is
\* held waits until it is released; the lock has one slot.
lock_held(lock) == lock # None

\* A variant of remove_roles that removes nothing.
keep_roles(member_roles, role) == member_roles

\* One request of member.remove_roles, and member.add_roles.
remove_roles(member_roles, role) == member_roles \ {role}

add_roles(member_roles, role) == member_roles \cup {role}

\* The listener raised, or returned with this outcome.
Ended(task, kind) == [task EXCEPT !.pc = "done", !.kind = kind]

\* reward_user up to its first await: bot.RUN(ADD_PASSED_QUIZ, ...).
EnterReward(task, rank_name, caller) ==
    [task EXCEPT !.pc = "insert", !.rank = rank_name, !.caller = caller]

\* The loop of check_if_combination_rank_earned from one rank on, up to its
\* next await; when the loop ends, reward_user returns to the listener,
\* which awaits send_in_announcement_channel.
RECURSIVE CombinationStep(_, _, _, _)
CombinationStep(task, ranks, member_roles, pos) ==
    IF ranks = <<>> THEN [task EXCEPT !.pc = "announce", !.combos = <<>>]
    ELSE LET rank == RankEntry(Head(ranks))
         IN IF already_owns_higher_or_same_role(rank.rank_to_get, member_roles, pos)
            THEN [task EXCEPT !.pc = "announce", !.combos = <<>>]
            ELSE IF AllRequiredPassed(rank, task.earned)
            THEN EnterReward([task EXCEPT !.combos = Tail(ranks)], rank.name, "combination")
            ELSE CombinationStep(task, Tail(ranks), member_roles, pos)

\* Lines 512-532: from the report to the first await after it.
AfterFetch(task, message, member_roles, pos) ==
    LET result == message.fetched
        matched == get_corresponding_quiz_data(result)
    IN IF matched = <<>> THEN Ended(task, "NoMatchingRank")
       ELSE IF result.participants = <<>> THEN Ended(task, "Raised")
       ELSE LET member == result.participants[1].discordUser.id
                data == matched[1]
                verified == verify_quiz_settings(data, result, member)
                known == [task EXCEPT !.member = member, !.quiz = data.name]
            IN IF verified.raised THEN Ended(task, "Raised")
               ELSE IF already_owns_higher_or_same_role(data.rank_to_get,
                                                        member_roles[member], pos)
               THEN Ended(known, "SkippedAlreadyHeld")
               ELSE IF /\ verified.ok
                       /\ data.require_role # None
                       /\ get_role(data.require_role) \notin member_roles[member]
               THEN [known EXCEPT !.pc = "send_required"]
               ELSE IF verified.ok THEN EnterReward(known, data.name, "listener")
               ELSE IF rank_has_cooldown(data.name) THEN [known EXCEPT !.pc = "register"]
               ELSE Ended(known, "Rejected")

(***************************************************************************)
(* DynamicQuizMenu.callback: a member selects a quiz in the menu and gets  *)
(* their quiz thread, unless the quiz is on cooldown for them.             *)
(***************************************************************************)
\* A thread and what the guild knows of its last message: last_message is
\* "none" while no message was ever sent in it (last_message_id is None),
\* "cached" when thread.last_message finds the message, "uncached" when only
\* fetch_message finds it, "deleted" when the message is gone (NotFound).
Thread(guild, owner, locked, archived, members, created_at, last_message, last_message_at) ==
    [ guild |-> guild, owner |-> owner, exists |-> TRUE, locked |-> locked,
      archived |-> archived, members |-> members, created_at |-> created_at,
      last_message |-> last_message, last_message_at |-> last_message_at ]

\* interaction.channel.create_thread
NewThread(guild, user, at) == Thread(guild, user, FALSE, FALSE, {}, at, "none", at)

\* Table user_threads holds the rows of every user, in insertion order.
\* A variant that inserts without ON CONFLICT(user_id) DO UPDATE.
ADD_USER_THREAD_INSERT(thread_rows, user_id, thread_id) ==
    [thread_rows EXCEPT ![user_id] = Append(@, thread_id)]

ADD_USER_THREAD(thread_rows, user_id, thread_id) ==
    [thread_rows EXCEPT ![user_id] = <<thread_id>>]

\* GET_ONE: the first row, <<>> when there is none.
GET_USER_THREAD(thread_rows, user_id) ==
    IF thread_rows[user_id] = <<>> THEN <<>> ELSE <<thread_rows[user_id][1]>>

\* guild.get_thread, then guild.fetch_channel: the cache of a guild holds its
\* own threads that are not archived; fetch_channel finds an archived thread
\* of the guild, raises NotFound for a deleted one and InvalidData for a
\* thread of another guild.
ResolveThread(guild, thread_list, thread_id) ==
    LET thread == thread_list[thread_id]
    IN IF ~thread.exists THEN "NotFound"
       ELSE IF thread.guild # guild THEN "InvalidData"
       ELSE "found"

\* A variant of the edit that unarchives the thread and leaves it locked.
quiz_thread_edit_archived_only(thread) == [thread EXCEPT !.archived = FALSE]

\* quiz_thread.edit(locked=False, archived=False)
quiz_thread_edit(thread) == [thread EXCEPT !.locked = FALSE, !.archived = FALSE]

\* quiz_thread.add_user for the quiz bot and for the member
add_user(thread, user) == [thread EXCEPT !.members = @ \cup {KOTOBA_BOT_ID, user}]

\* quiz_thread.send: the message is the last one of the thread.
Sent(thread, at) == [thread EXCEPT !.last_message = "cached", !.last_message_at = at]

\* The options of the menu: the ranks that have a command.
MenuOptions == {rank_structure[i].name : i \in {j \in RankIndexes : rank_structure[j].command # <<>>}}

callback_in(guild, user, rank, at, attempts, thread_rows, thread_list) ==
    LET named == {i \in RankIndexes : rank_structure[i].name = rank}
        quiz_command == IF named = {} THEN <<>>
                        ELSE rank_structure[CHOOSE i \in named : \A j \in named : i <= j].command
        cooldown == is_on_cooldown_create(attempts, at, guild, user, rank,
                                          rank_has_cooldown(rank))
        quiz_thread_record == GET_USER_THREAD(thread_rows, user)
        resolved == IF quiz_thread_record = <<>> THEN "NotFound"
                    ELSE ResolveThread(guild, thread_list, quiz_thread_record[1])
        found == resolved = "found"
        thread_id == IF found THEN quiz_thread_record[1] ELSE Len(thread_list) + 1
        opened == IF found THEN thread_list
                  ELSE Append(thread_list, NewThread(guild, user, at))
        \* if quiz_thread.locked or quiz_thread.archived: quiz_thread.edit(...)
        edited == IF opened[thread_id].locked \/ opened[thread_id].archived
                  THEN << <<"edit", thread_id, "locked=False", "archived=False">> >>
                  ELSE <<>>
    IN IF cooldown.on_cooldown
       THEN [ user_threads |-> thread_rows, threads |-> thread_list,
              outcome |-> Outcome("MenuOnCooldown", <<"menu", guild, user, rank>>, user, rank,
                                  "none", cooldown.next_attempt, None,
                                  <<<<"ephemeral", "once per week">> \o cooldown.next_attempt>>,
                                  <<>>) ]
       ELSE IF resolved = "InvalidData"
       THEN [ user_threads |-> thread_rows, threads |-> thread_list,
              outcome |-> Outcome("MenuRaised", <<"menu", guild, user, rank>>, user, rank,
                                  "none", <<>>, None,
                                  << <<"ephemeral", "Creating your quiz thread", rank>> >>,
                                  <<>>) ]
       ELSE [ user_threads |-> IF found THEN thread_rows
                               ELSE ADD_USER_THREAD(thread_rows, user, thread_id),
              threads |-> [opened EXCEPT ![thread_id] = Sent(add_user(quiz_thread_edit(@), user), at)],
              outcome |-> Outcome("MenuThread", <<"menu", guild, user, rank>>, user, rank,
                                  "none", <<>>, None,
                                  << <<"ephemeral", "Creating your quiz thread", rank>> >>
                                     \o edited
                                     \o << <<"thread", thread_id, user, "To begin", rank>>,
                                            <<"thread", thread_id>> \o quiz_command >>,
                                  <<>>) ]

\* The menu of the first guild.
callback(user, rank, at, attempts, thread_rows, thread_list) ==
    callback_in(Guild, user, rank, at, attempts, thread_rows, thread_list)

(***************************************************************************)
(* DynamicQuizMenu.callback in steps.  Every selection in the menu runs    *)
(* the callback as a task of its own; pc names the await it is suspended   *)
(* at, thread the quiz thread it has resolved so far.                      *)
(***************************************************************************)
\* The callback returned, or raised, with this outcome.
SelectionEnded(selection, kind) == [selection EXCEPT !.pc = "done", !.kind = kind]

\* One call of quiz_thread.add_user.
add_one_user(thread, user_id) == [thread EXCEPT !.members = @ \cup {user_id}]

\* guild.get_thread: the cache holds the threads of the guild that are not
\* archived.
get_thread(guild, thread_list, thread_id) ==
    /\ thread_list[thread_id].exists
    /\ thread_list[thread_id].guild = guild
    /\ ~thread_list[thread_id].archived

\* Lines 298-309: the awaits that follow once the thread is at hand.  Each
\* is reached only if its condition holds when the callback gets there.
ThreadAwaits == <<"edit", "add_bot", "add_member", "send_intro">>

RECURSIVE NextThreadAwait(_, _, _)
NextThreadAwait(i, thread, user) ==
    LET needed == CASE i = 1 -> thread.locked \/ thread.archived
                    [] i = 2 -> KOTOBA_BOT_ID \notin thread.members
                    [] i = 3 -> user \notin thread.members
                    [] OTHER -> TRUE
    IN IF needed THEN ThreadAwaits[i] ELSE NextThreadAwait(i + 1, thread, user)

(***************************************************************************)
(* delete_inactive_threads: one pass of the minute loop over the active    *)
(* threads of a quiz channel, in the order of the thread list.  An         *)
(* archived thread is not among channel.threads.  The pauses under         *)
(* thread_deletion_lock take no time of the model.                         *)
(***************************************************************************)
\* timedelta(days=14)
InactiveDays == 14

InactiveFor == InactiveDays * TicksPerDay

Delete(thread) == [thread EXCEPT !.exists = FALSE]

\* thread.last_message, and thread.fetch_message when the cache has none:
\* "found" when a message is at hand, "absent" after discord.NotFound.
LastMessageOf(thread) ==
    IF thread.last_message \in {"cached", "uncached"} THEN "found" ELSE "absent"

RECURSIVE SweepFrom(_, _, _, _, _)
SweepFrom(guild, thread_list, i, at, deleted) ==
    IF i > Len(thread_list)
    THEN [threads |-> thread_list, raised |-> FALSE, deleted |-> deleted]
    ELSE LET thread == thread_list[i]
             removed == SweepFrom(guild, [thread_list EXCEPT ![i] = Delete(thread)], i + 1, at,
                                  Append(deleted, <<"delete", i>>))
             kept == SweepFrom(guild, thread_list, i + 1, at, deleted)
         IN IF thread.guild # guild \/ ~thread.exists \/ thread.archived THEN kept
            \* if not last_message_id: continue
            ELSE IF thread.last_message = "none" THEN kept
            ELSE IF LastMessageOf(thread) = "absent" /\ thread.created_at < at - InactiveFor
            THEN removed
            \* last_message.created_at of no message: AttributeError
            ELSE IF LastMessageOf(thread) = "absent"
            THEN [threads |-> thread_list, raised |-> TRUE, deleted |-> deleted]
            ELSE IF thread.last_message_at < at - InactiveFor THEN removed
            ELSE kept

delete_inactive_threads(guild, thread_list, at, deleted) ==
    SweepFrom(guild, thread_list, 1, at, deleted)

\* for guild_id in gatekeeper_settings['rank_settings']
RECURSIVE SweepGuilds(_, _, _, _)
SweepGuilds(g, thread_list, at, deleted) ==
    IF g > Len(Guilds)
    THEN [threads |-> thread_list, raised |-> FALSE, deleted |-> deleted]
    ELSE LET done == delete_inactive_threads(Guilds[g], thread_list, at, deleted)
         IN IF done.raised THEN done
            ELSE SweepGuilds(g + 1, done.threads, at, done.deleted)

\* inactive_quiz_thread_deleter: the loop ends for good when a pass raises.
inactive_quiz_thread_deleter(thread_list, at) ==
    LET done == SweepGuilds(1, thread_list, at, <<>>)
    IN [ threads |-> done.threads,
         sweeper |-> IF done.raised THEN "failed" ELSE "running",
         outcome |-> Outcome(IF done.raised THEN "SweepRaised" ELSE "Swept", <<"sweep">>,
                             None, None, "none", <<>>, None, done.deleted, <<>>) ]

(***************************************************************************)
(* clear_user_cooldown: an administrator resets the attempts of a member,  *)
(* for one quiz or for all.                                                *)
(***************************************************************************)
\* Texts that are part of a rank name without being one.
PartialRankNames == {"Vocab"}

\* any(quiz_to_reset in rank['name'] for rank in rank_structure)
InSomeRankName(quiz_to_reset) ==
    \/ \E i \in RankIndexes : rank_structure[i].name = quiz_to_reset
    \/ quiz_to_reset \in PartialRankNames

RESET_ALL_QUIZ_ATTEMPTS(table, guild_id, user_id) ==
    SelectSeq(table, LAMBDA row : ~(row.guild_id = guild_id /\ row.user_id = user_id))

\* A variant whose DELETE leaves the quiz name out of its WHERE clause.
RESET_SPECIFIC_IGNORING_QUIZ(table, guild_id, user_id, quiz_name) ==
    SelectSeq(table, LAMBDA row : ~(row.guild_id = guild_id /\ row.user_id = user_id))

RESET_SPECIFIC_QUIZ_ATTEMPTS(table, guild_id, user_id, quiz_name) ==
    SelectSeq(table, LAMBDA row : ~(/\ row.guild_id = guild_id
                                    /\ row.user_id = user_id
                                    /\ row.quiz_name = quiz_name))

clear_user_cooldown(table, user, quiz_to_reset) ==
    LET replied(kind, text) ==
            Outcome(kind, <<"reset", user, quiz_to_reset>>, user, quiz_to_reset, "none",
                    <<>>, None, <<<<"reply", text, user, quiz_to_reset>>>>, <<>>)
    IN IF quiz_to_reset = None
       THEN [ quiz_attempts |-> RESET_ALL_QUIZ_ATTEMPTS(table, Guild, user),
              outcome |-> replied("ResetAll", "Cleared all quiz cooldown") ]
       ELSE IF ~InSomeRankName(quiz_to_reset)
       THEN [ quiz_attempts |-> table, outcome |-> replied("ResetInvalid", "Invalid quiz name.") ]
       ELSE [ quiz_attempts |-> RESET_SPECIFIC_QUIZ_ATTEMPTS(table, Guild, user, quiz_to_reset),
              outcome |-> replied("ResetQuiz", "Cleared quiz cooldown") ]

(***************************************************************************)
(* The inputs of the verifier.  A case lists every field of the rank entry *)
(* and of the report that verify_quiz_settings reads; the cases checked    *)
(* are those that differ from the reference case (a report that passes:    *)
(* full score, shuffled, not loaded, one participant) in at most           *)
(* MaxChanged fields, each changed field ranging over its whole domain.    *)
(***************************************************************************)
MaxChanged == 3

MaxScore == 3

MaxAnswerTime == 3

MaxParticipants == 2

Fonts == {"f1", "f2"}
FontSizes == {"s1", "s2"}
Colors == {"c1", "c2"}
Effects == {"e1", "e2"}

\* What a deck of a report may carry as its index range: no key at all, the
\* keys with a value, the keys with an empty value (0), a start without an end.
DeckIndexKinds ==
    { [k |-> "none"], [k |-> "both", startIndex |-> 1, endIndex |-> 2],
      [k |-> "both", startIndex |-> 2, endIndex |-> 2],
      [k |-> "both", startIndex |-> 1, endIndex |-> 3],
      [k |-> "both", startIndex |-> 0, endIndex |-> 0],
      [k |-> "both", startIndex |-> 0, endIndex |-> 2],
      [k |-> "start", startIndex |-> 1] }

Deck(short_name, mc, index) ==
    IF index.k = "none" THEN [shortName |-> short_name, mc |-> mc]
    ELSE IF index.k = "start"
         THEN [shortName |-> short_name, mc |-> mc, startIndex |-> index.startIndex]
    ELSE [shortName |-> short_name, mc |-> mc,
          startIndex |-> index.startIndex, endIndex |-> index.endIndex]

SecondDecks == {<<>>} \cup {<<Deck("d1", mc, index)>> : mc \in BOOLEAN, index \in DeckIndexKinds}

FieldDomain ==
    [ score_limit |-> 1..MaxScore,
      time_limit |-> 1..MaxAnswerTime,
      max_missed |-> 1..MaxScore,
      font |-> {None} \cup Fonts,
      font_size |-> {None} \cup FontSizes,
      foreground |-> {None} \cup Colors,
      effect |-> {None} \cup Effects,
      deck_range |-> {NoRange, <<1, 2>>},
      participants |-> 0..MaxParticipants,
      shuffle |-> BOOLEAN,
      isLoaded |-> BOOLEAN,
      mc |-> BOOLEAN,
      index |-> DeckIndexKinds,
      more_decks |-> SecondDecks,
      fontColor |-> Colors,
      reportEffect |-> Effects,
      scoreLimit |-> 1..MaxScore,
      answerTimeLimitInMs |-> 1..MaxAnswerTime,
      reportFont |-> Fonts,
      fontSize |-> FontSizes,
      questions |-> 0..MaxScore,
      score |-> 0..MaxScore ]

ReferenceCase ==
    [ score_limit |-> 2, time_limit |-> 2, max_missed |-> 2,
      font |-> "f1", font_size |-> "s1", foreground |-> "c1", effect |-> "e1",
      deck_range |-> NoRange,
      participants |-> 1, shuffle |-> TRUE, isLoaded |-> FALSE,
      mc |-> FALSE, index |-> [k |-> "none"], more_decks |-> <<>>,
      fontColor |-> "c1", reportEffect |-> "e1", scoreLimit |-> 2,
      answerTimeLimitInMs |-> 2, reportFont |-> "f1", fontSize |-> "s1",
      questions |-> 2, score |-> 2 ]

\* The fields in a fixed order, so that a set of changes is drawn once.
RECURSIVE SeqOf(_)
SeqOf(S) == IF S = {} THEN <<>> ELSE LET x == CHOOSE y \in S : TRUE IN <<x>> \o SeqOf(S \ {x})

FieldList == SeqOf(DOMAIN FieldDomain)

\* The rank entry of the configuration a case stands for.
QuizDataOf(c) ==
    [ name |-> "Silver", score_limit |-> c.score_limit, time_limit |-> c.time_limit,
      font |-> c.font, font_size |-> c.font_size, max_missed |-> c.max_missed,
      foreground |-> c.foreground, effect |-> c.effect, deck_range |-> c.deck_range ]

\* The report a case stands for: the service lists one score per participant.
QuizResultOf(c) ==
    [ participants |-> [i \in 1..c.participants |-> [discordUser |-> [id |-> i]]],
      scores |-> [i \in 1..c.participants |-> [score |-> c.score]],
      isLoaded |-> c.isLoaded,
      decks |-> <<Deck("d1", c.mc, c.index)>> \o c.more_decks,
      questions |-> c.questions,
      settings |-> [ shuffle |-> c.shuffle, fontColor |-> c.fontColor,
                     effect |-> c.reportEffect, scoreLimit |-> c.scoreLimit,
                     answerTimeLimitInMs |-> c.answerTimeLimitInMs,
                     font |-> c.reportFont, fontSize |-> c.fontSize ] ]

VerifyInputIs(c) ==
    /\ quiz_data = QuizDataOf(c)
    /\ quiz_result = QuizResultOf(c)

\* The cases that change at most k of the fields from the i-th on.
RECURSIVE VerifyInputFrom(_, _, _)
VerifyInputFrom(c, i, k) ==
    \/ VerifyInputIs(c)
    \/ /\ k > 0
       /\ \E j \in i..Len(FieldList) :
             \E v \in FieldDomain[FieldList[j]] \ {c[FieldList[j]]} :
                VerifyInputFrom([c EXCEPT ![FieldList[j]] = v], j + 1, k - 1)

(***************************************************************************)
(* The events.  Time advances in steps; table quiz_attempts is bounded by  *)
(* MaxAttempts rows where the cooldown is followed and by MaxCharged rows  *)
(* where the progression of two members is.                                *)
(***************************************************************************)
MaxAttempts == 2

MaxCharged == 1

WeekTicks == 7 * TicksPerDay

MaxTime == 2 * WeekTicks

\* Wednesday 10:00 UTC and Sunday 00:00 UTC of the first week.
WednesdayTen == 2 * TicksPerDay + 10

SundayMidnight == 6 * TicksPerDay

TimeStep == SundayMidnight - WednesdayTen

QuizRanks == {rank_structure[i] : i \in {j \in RankIndexes : ~rank_structure[j].combination_rank}}

RankNamed(name) == CHOOSE rank \in QuizRanks : rank.name = name

\* The report of a quiz taken with the command of a rank: its deck, its
\* index range and its settings are those of the rank.
ReportOf(rank, participants, score) ==
    [ participants |-> [i \in 1..Len(participants) |-> [discordUser |-> [id |-> participants[i]]]],
      scores |-> [i \in 1..Len(participants) |-> [score |-> score]],
      isLoaded |-> FALSE,
      decks |-> <<Deck(rank.command[2], FALSE,
                       IF rank.deck_range = NoRange THEN [k |-> "none"]
                       ELSE [k |-> "both", startIndex |-> rank.deck_range[1],
                             endIndex |-> rank.deck_range[2]])>>,
      questions |-> rank.score_limit,
      settings |-> [ shuffle |-> TRUE, fontColor |-> "c1", effect |-> "e1",
                     scoreLimit |-> rank.score_limit,
                     answerTimeLimitInMs |-> rank.time_limit,
                     font |-> "f1", fontSize |-> "s1" ] ]

PassingReport(rank, user) ==
    EndedReport(<<"report", rank.name, user, "pass">>, ReportOf(rank, <<user>>, rank.score_limit))

\* One answer short of the score limit.
FailingReport(rank, user) ==
    EndedReport(<<"report", rank.name, user, "fail">>,
                ReportOf(rank, <<user>>, rank.score_limit - 1))

QuizReports(users) ==
    {PassingReport(rank, user) : rank \in QuizRanks, user \in users}
        \cup {FailingReport(rank, user) : rank \in QuizRanks, user \in users}

\* Reports and messages that are not the report of one member's quiz.
OtherMessages ==
    { EndedReport(<<"report", "Bronze", "nobody", "pass">>,
                  ReportOf(RankNamed("Bronze"), <<>>, 2)),
      EndedReport(<<"report", "Bronze", "u1 and u2", "pass">>,
                  ReportOf(RankNamed("Bronze"), <<"u1", "u2">>, 2)),
      EndedReport(<<"report", "other deck", "u1", "pass">>,
                  [ReportOf(RankNamed("Bronze"), <<"u1">>, 2)
                      EXCEPT !.decks = <<Deck("other", FALSE, [k |-> "none"])>>]),
      Message(<<"report", "not fetched">>, KOTOBA_BOT_ID, TRUE, TRUE, NoChannel, <<>>,
              "Ended", FALSE, <<>>),
      Message(<<"quiz bot", "started">>, KOTOBA_BOT_ID, TRUE, TRUE, NoChannel, <<>>,
              "Started", FALSE, <<>>),
      Message(<<"own message">>, BOT_USER, TRUE, TRUE, NoChannel, <<"k!quiz", "bronze">>,
              None, FALSE, <<>>),
      Message(<<"direct message">>, "u1", FALSE, FALSE, NoChannel, <<"k!quiz", "bronze">>,
              None, FALSE, <<>>) }

EngineMessages == QuizReports(Users) \cup OtherMessages

\* What a member may type.
Contents ==
    { <<"k!quiz", "bronze">>, <<"k!quiz", "bronze", "mc">>, <<"k!quiz", "svocab", "mc">>,
      <<"k!quiz", "sgrammar">>, <<"k!quiz", "other">>, <<"hello">> }

\* Typed in the member's own quiz thread when there is one, or elsewhere.
TypedMessages(users, thread_rows) ==
    { TypedCommand(<<"typed", user, IF own THEN "own thread" ELSE "elsewhere">> \o content,
                   user,
                   IF own /\ thread_rows[user] # <<>> THEN thread_rows[user][1] ELSE NoChannel,
                   content) :
        user \in users, own \in BOOLEAN, content \in Contents }

CooldownUsers == {"u1"}

CooldownMessages ==
    { PassingReport(RankNamed("Bronze"), "u1"), FailingReport(RankNamed("Bronze"), "u1"),
      FailingReport(RankNamed("SilverGrammar"), "u1") }
        \cup TypedMessages(CooldownUsers, user_threads)

ResetInputs == {None, "Bronze", "Vocab", "Platinum"}

\* role.position: the guild orders its roles, no two alike.
Positions ==
    {pos \in [GuildRoles -> 1..Cardinality(GuildRoles)] :
        \A r, s \in GuildRoles : r # s => pos[r] # pos[s]}

ConfiguredOrder == [r \in GuildRoles |-> CASE r = "Bronze" -> 1 [] r = "Silver" -> 2 [] r = "Gold" -> 3]

OnMessage(message, max_rows) ==
    \E done \in {level_up_routine(message, now, quiz_attempts, passed_quizzes, roles,
                                  position, user_threads)} :
       /\ Len(done.quiz_attempts) <= max_rows
       /\ quiz_attempts' = done.quiz_attempts
       /\ passed_quizzes' = done.passed_quizzes
       /\ roles' = done.roles
       /\ outcome' = done.outcome
       /\ UNCHANGED <<now, position, user_threads, threads>>
       /\ UNCHANGED verify_vars
       /\ UNCHANGED background_vars

SelectQuiz(user, rank) ==
    \E done \in {callback(user, rank, now, quiz_attempts, user_threads, threads)} :
       /\ user_threads' = done.user_threads
       /\ threads' = done.threads
       /\ outcome' = done.outcome
       /\ UNCHANGED <<now, quiz_attempts, passed_quizzes, roles, position>>
       /\ UNCHANGED verify_vars
       /\ UNCHANGED background_vars

SelectQuizIn(guild, user, rank) ==
    \E done \in {callback_in(guild, user, rank, now, quiz_attempts, user_threads, threads)} :
       /\ user_threads' = done.user_threads
       /\ threads' = done.threads
       /\ outcome' = done.outcome
       /\ UNCHANGED <<now, quiz_attempts, passed_quizzes, roles, position>>
       /\ UNCHANGED verify_vars
       /\ UNCHANGED background_vars

ResetCooldown(user, quiz_to_reset) ==
    \E done \in {clear_user_cooldown(quiz_attempts, user, quiz_to_reset)} :
       /\ quiz_attempts' = done.quiz_attempts
       /\ outcome' = done.outcome
       /\ UNCHANGED <<now, passed_quizzes, roles, position, user_threads, threads>>
       /\ UNCHANGED verify_vars
       /\ UNCHANGED background_vars

Tick ==
    /\ now + TimeStep <= MaxTime
    /\ now' = now + TimeStep
    /\ UNCHANGED <<quiz_attempts, passed_quizzes, roles, position, outcome, user_threads,
                   threads>>
    /\ UNCHANGED verify_vars
    /\ UNCHANGED background_vars

VerifierIdle ==
    /\ quiz_data = <<>>
    /\ quiz_result = <<>>
    /\ verdict = NotVerified

TablesEmpty ==
    /\ quiz_attempts = <<>>
    /\ passed_quizzes = {}
    /\ roles = [user \in Users |-> {}]
    /\ outcome = NoOutcome
    /\ user_threads = [user \in Users |-> <<>>]
    /\ threads = <<>>
    /\ sweeper = "running"
    /\ NoTasks

\* The progression engine: quiz reports of both members, on a Wednesday.
Init ==
    /\ VerifierIdle
    /\ TablesEmpty
    /\ now = WednesdayTen
    /\ position \in Positions

ObserveMessage == \E message \in EngineMessages : OnMessage(message, MaxCharged)

Next == ObserveMessage

Spec == Init /\ [][Next]_vars

\* The cooldown tracker: one member, from a Wednesday morning, from the last
\* hour of a Saturday or from a Sunday midnight on.
StartTimes == {WednesdayTen, SundayMidnight - 1, SundayMidnight}

CooldownInit ==
    /\ VerifierIdle
    /\ TablesEmpty
    /\ now \in StartTimes
    /\ position = ConfiguredOrder

ObserveCooldownMessage == \E message \in CooldownMessages : OnMessage(message, MaxAttempts)

SelectAnyQuiz == \E user \in CooldownUsers, rank \in MenuOptions : SelectQuiz(user, rank)

ResetAnyCooldown ==
    \E user \in CooldownUsers, quiz_to_reset \in ResetInputs : ResetCooldown(user, quiz_to_reset)

CooldownNext ==
    \/ ObserveCooldownMessage
    \/ SelectAnyQuiz
    \/ ResetAnyCooldown
    \/ Tick

SpecCooldown == CooldownInit /\ [][CooldownNext]_vars

\* The Sunday boundary: a failed attempt at a quiz with a cooldown, at any
\* hour of two weeks.
BoundaryInit ==
    /\ VerifierIdle
    /\ TablesEmpty
    /\ now \in 0..MaxTime
    /\ position = ConfiguredOrder

FailedAttempt == OnMessage(FailingReport(RankNamed("Bronze"), "u1"), MaxAttempts)

BoundaryNext == FailedAttempt

SpecBoundary == BoundaryInit /\ [][BoundaryNext]_vars

\* The attempts table: failed reports of two members and of two quizzes with
\* a cooldown, resets of either member, and time.
AttemptMessages ==
    { FailingReport(RankNamed("Bronze"), "u1"), FailingReport(RankNamed("Bronze"), "u2"),
      FailingReport(RankNamed("SilverVocab"), "u1"),
      FailingReport(RankNamed("SilverGrammar"), "u1") }

AttemptsInit ==
    /\ VerifierIdle
    /\ TablesEmpty
    /\ now = WednesdayTen
    /\ position = ConfiguredOrder

ObserveFailedReport == \E message \in AttemptMessages : OnMessage(message, MaxAttempts)

ResetAnyMember ==
    \E user \in Users, quiz_to_reset \in ResetInputs : ResetCooldown(user, quiz_to_reset)

AttemptsNext ==
    \/ ObserveFailedReport
    \/ ResetAnyMember
    \/ Tick

SpecAttempts == AttemptsInit /\ [][AttemptsNext]_vars

\* The thread sweeper: up to two quiz threads of every age and kind of last
\* message, the minute loop, the quiz menu, and time in hours.
MaxSweepTicks == 2

MaxThreads == 3

SweepStart == 20 * TicksPerDay

\* Created and last written to at these times; a thread with no message, or
\* whose last message was deleted, carries its creation time as the latter.
ThreadActivities ==
    { [created_at |-> SweepStart - 20 * TicksPerDay, last_message |-> "none",
       last_message_at |-> SweepStart - 20 * TicksPerDay],
      [created_at |-> SweepStart - 5 * TicksPerDay, last_message |-> "none",
       last_message_at |-> SweepStart - 5 * TicksPerDay],
      [created_at |-> SweepStart - 20 * TicksPerDay, last_message |-> "deleted",
       last_message_at |-> SweepStart - 20 * TicksPerDay],
      [created_at |-> SweepStart - 5 * TicksPerDay, last_message |-> "deleted",
       last_message_at |-> SweepStart - 5 * TicksPerDay],
      [created_at |-> SweepStart - 20 * TicksPerDay, last_message |-> "cached",
       last_message_at |-> SweepStart - 5 * TicksPerDay],
      [created_at |-> SweepStart - 20 * TicksPerDay, last_message |-> "cached",
       last_message_at |-> SweepStart - InactiveFor],
      [created_at |-> SweepStart - 20 * TicksPerDay, last_message |-> "cached",
       last_message_at |-> SweepStart - InactiveFor - 1],
      [created_at |-> SweepStart - 20 * TicksPerDay, last_message |-> "uncached",
       last_message_at |-> SweepStart - 20 * TicksPerDay] }

\* A thread with no message is one whose callback ended at add_user, before
\* anyone joined it or wrote to it.
ThreadsOf(user) ==
    { Thread(Guild, user, locked, archived,
             IF activity.last_message = "none" THEN {} ELSE {KOTOBA_BOT_ID, user},
             activity.created_at, activity.last_message, activity.last_message_at) :
        locked \in BOOLEAN, archived \in BOOLEAN, activity \in ThreadActivities }

InitialThreads ==
    {<<>>} \cup {<<first>> : first \in ThreadsOf("u1")}
           \cup {<<first, second>> : first \in ThreadsOf("u1"), second \in ThreadsOf("u2")}

SweepInit ==
    /\ VerifierIdle
    /\ quiz_attempts = <<>>
    /\ passed_quizzes = {}
    /\ roles = [user \in Users |-> {}]
    /\ outcome = NoOutcome
    /\ position = ConfiguredOrder
    /\ now = SweepStart
    /\ sweeper = "running"
    /\ NoTasks
    /\ threads \in InitialThreads
    /\ user_threads = [user \in Users |->
                          IF user = "u1" /\ Len(threads) >= 1 THEN <<1>>
                          ELSE IF user = "u2" /\ Len(threads) >= 2 THEN <<2>>
                          ELSE <<>>]

Sweep ==
    /\ sweeper = "running"
    /\ \E done \in {inactive_quiz_thread_deleter(threads, now)} :
          /\ threads' = done.threads
          /\ sweeper' = done.sweeper
          /\ outcome' = done.outcome
    /\ UNCHANGED <<tasks, kotoba_request_lock, selections>>
    /\ UNCHANGED <<now, quiz_attempts, passed_quizzes, roles, position, user_threads>>
    /\ UNCHANGED verify_vars

SelectQuizInThread ==
    \E user \in Users, rank \in MenuOptions :
       /\ SelectQuiz(user, rank)
       /\ Len(threads') <= MaxThreads

Hour ==
    /\ now < SweepStart + MaxSweepTicks
    /\ now' = now + 1
    /\ UNCHANGED <<quiz_attempts, passed_quizzes, roles, position, outcome, user_threads,
                   threads>>
    /\ UNCHANGED verify_vars
    /\ UNCHANGED background_vars

SweepNext ==
    \/ Sweep
    \/ SelectQuizInThread
    \/ Hour

SpecSweep == SweepInit /\ [][SweepNext]_vars

\* The quiz menus of both guilds: members ask for their quiz thread while
\* threads are archived after an idle hour (auto_archive_duration), locked by
\* a moderator, or deleted.
MaxMenuThreads == 2

MenuInit ==
    /\ VerifierIdle
    /\ TablesEmpty
    /\ now = WednesdayTen
    /\ position = ConfiguredOrder

SelectQuizAnywhere ==
    \E g \in 1..Len(Guilds), user \in Users, rank \in MenuOptions :
       /\ SelectQuizIn(Guilds[g], user, rank)
       /\ Len(threads') <= MaxMenuThreads

ThreadChanges(changed) ==
    /\ threads' = changed
    /\ UNCHANGED <<now, quiz_attempts, passed_quizzes, roles, position, outcome, user_threads>>
    /\ UNCHANGED verify_vars
    /\ UNCHANGED background_vars

AutoArchive ==
    \E i \in 1..Len(threads) :
       /\ threads[i].exists /\ ~threads[i].archived
       /\ ThreadChanges([threads EXCEPT ![i].archived = TRUE])

ModeratorLocks ==
    \E i \in 1..Len(threads) :
       /\ threads[i].exists /\ ~threads[i].locked
       /\ ThreadChanges([threads EXCEPT ![i].locked = TRUE])

ThreadDeleted ==
    \E i \in 1..Len(threads) :
       /\ threads[i].exists
       /\ ThreadChanges([threads EXCEPT ![i] = Delete(@)])

MenuNext ==
    \/ SelectQuizAnywhere
    \/ AutoArchive
    \/ ModeratorLocks
    \/ ThreadDeleted

SpecMenu == MenuInit /\ [][MenuNext]_vars

\* Two evaluations under way at once.  Member u1 starts as a Bronze member,
\* member u2 with nothing; the quiz bot posts passing reports of both for
\* every quiz, a failing report of a quiz without cooldown and one of a quiz
\* with cooldown.
RaceStart ==
    [ roles |-> [user \in Users |-> IF user = "u1" THEN {"Bronze"} ELSE {}],
      passed_quizzes |-> {<<Guild, "u1", "Bronze">>} ]

RaceReports ==
    {PassingReport(rank, user) : rank \in QuizRanks, user \in Users}
        \cup {FailingReport(RankNamed("SilverGrammar"), "u1"),
              FailingReport(RankNamed("Bronze"), "u2")}

ReportWithId(id) == CHOOSE message \in RaceReports : message.id = id

RaceInit ==
    /\ VerifierIdle
    /\ quiz_attempts = <<>>
    /\ passed_quizzes = RaceStart.passed_quizzes
    /\ roles = RaceStart.roles
    /\ outcome = NoOutcome
    /\ user_threads = [user \in Users |-> <<>>]
    /\ threads = <<>>
    /\ sweeper = "running"
    /\ NoTasks
    /\ now = WednesdayTen
    /\ position = ConfiguredOrder

TaskStep(e, task) ==
    /\ tasks' = [tasks EXCEPT ![e] = task]
    /\ UNCHANGED <<now, position, outcome, user_threads, threads, sweeper, selections>>
    /\ UNCHANGED verify_vars

\* The listener is called for a report and reaches extract_quiz_result_from_id.
Arrive(e) ==
    /\ tasks[e].pc = "idle"
    /\ \E message \in RaceReports :
          TaskStep(e, [tasks[e] EXCEPT !.pc = "waiting", !.message = message.id])
    /\ UNCHANGED <<quiz_attempts, passed_quizzes, roles, kotoba_request_lock>>

\* async with kotoba_request_lock, up to await asyncio.sleep(2)
AcquireLock(e) ==
    /\ tasks[e].pc = "waiting"
    /\ ~lock_held(kotoba_request_lock)
    /\ kotoba_request_lock' = e
    /\ TaskStep(e, [tasks[e] EXCEPT !.pc = "settling"])
    /\ UNCHANGED <<quiz_attempts, passed_quizzes, roles>>

\* asyncio.sleep(2) is over: the request is sent, inside the lock.
Settled(e) ==
    /\ tasks[e].pc = "settling"
    /\ TaskStep(e, [tasks[e] EXCEPT !.pc = "fetching"])
    /\ UNCHANGED <<quiz_attempts, passed_quizzes, roles, kotoba_request_lock>>

FetchReturns(e) ==
    /\ tasks[e].pc = "fetching"
    /\ kotoba_request_lock' = None
    /\ TaskStep(e, AfterFetch(tasks[e], ReportWithId(tasks[e].message), roles, position))
    /\ UNCHANGED <<quiz_attempts, passed_quizzes, roles>>

\* The request fails or its body is no JSON: the lock is released on the way out.
FetchRaises(e) ==
    /\ tasks[e].pc = "fetching"
    /\ kotoba_request_lock' = None
    /\ TaskStep(e, Ended(tasks[e], "FetchRaised"))
    /\ UNCHANGED <<quiz_attempts, passed_quizzes, roles>>

\* The request never returns.
FetchHangs(e) ==
    /\ tasks[e].pc = "fetching"
    /\ TaskStep(e, [tasks[e] EXCEPT !.pc = "hung"])
    /\ UNCHANGED <<quiz_attempts, passed_quizzes, roles, kotoba_request_lock>>

\* bot.RUN(ADD_PASSED_QUIZ, ...) and what reward_user does up to its next await.
InsertPassed(e) ==
    LET task == tasks[e]
    IN /\ task.pc = "insert"
       /\ passed_quizzes' = ADD_PASSED_QUIZ(passed_quizzes, Guild, task.member, task.rank)
       /\ TaskStep(e, IF RankEntry(task.rank).rank_to_get # None
                      THEN [task EXCEPT !.pc = "remove", !.removing = QuizRoleList]
                      ELSE [task EXCEPT !.pc = "get_passed"])
       /\ UNCHANGED <<quiz_attempts, roles, kotoba_request_lock>>

\* bot.GET(GET_PASSED_QUIZZES, ...), then the loop over the combination ranks.
GetPassed(e) ==
    LET task == tasks[e]
        names == [i \in 1..Len(combination_ranks) |-> Reversed(combination_ranks)[i].name]
    IN /\ task.pc = "get_passed"
       /\ TaskStep(e, CombinationStep(
                         [task EXCEPT !.earned = GET_PASSED_QUIZZES(passed_quizzes, Guild,
                                                                    task.member)],
                         names, roles[task.member], position))
       /\ UNCHANGED <<quiz_attempts, passed_quizzes, roles, kotoba_request_lock>>

\* member.remove_roles(*roles): one request per role of the list.
RemoveRole(e) ==
    LET task == tasks[e]
    IN /\ task.pc = "remove"
       /\ roles' = [roles EXCEPT ![task.member] = remove_roles(@, Head(task.removing))]
       /\ TaskStep(e, [task EXCEPT !.removing = Tail(@),
                                   !.pc = IF Tail(task.removing) = <<>> THEN "add" ELSE "remove"])
       /\ UNCHANGED <<quiz_attempts, passed_quizzes, kotoba_request_lock>>

\* member.add_roles(role_to_get); reward_user returns to its caller.
AddRoleToMember(e) ==
    LET task == tasks[e]
    IN /\ task.pc = "add"
       /\ roles' = [roles EXCEPT ![task.member] =
                       add_roles(@, get_role(RankEntry(task.rank).rank_to_get))]
       /\ TaskStep(e, [task EXCEPT !.pc = IF task.caller = "combination"
                                          THEN "announce_rank" ELSE "announce"])
       /\ UNCHANGED <<quiz_attempts, passed_quizzes, kotoba_request_lock>>

\* send_in_announcement_channel of the combination rank, then the next ranks.
AnnounceRank(e) ==
    LET task == tasks[e]
    IN /\ task.pc = "announce_rank"
       /\ TaskStep(e, CombinationStep(task, task.combos, roles[task.member], position))
       /\ UNCHANGED <<quiz_attempts, passed_quizzes, roles, kotoba_request_lock>>

\* register_quiz_attempt: bot.RUN(ADD_QUIZ_ATTEMPT, ...)
RegisterAttempt(e) ==
    LET task == tasks[e]
    IN /\ task.pc = "register"
       /\ quiz_attempts' = ADD_QUIZ_ATTEMPT(quiz_attempts, Guild, task.member, task.quiz, now)
       /\ TaskStep(e, [task EXCEPT !.pc = "notify"])
       /\ UNCHANGED <<passed_quizzes, roles, kotoba_request_lock>>

\* The awaits that only send a message, and what the listener does next; a
\* direct message that is refused (discord.Forbidden) is passed over.
AfterSend(task) ==
    CASE task.pc = "announce" -> [task EXCEPT !.pc = "dm"]
      [] task.pc = "dm" -> Ended(task, "Rewarded")
      [] task.pc = "send_required" -> Ended(task, "RequiredRoleMissing")
      [] task.pc = "notify" -> [task EXCEPT !.pc = "dm_failed"]
      [] task.pc = "dm_failed" -> Ended(task, "CooldownCharged")

SendPoints == {"announce", "dm", "send_required", "notify", "dm_failed"}

Send(e) ==
    /\ tasks[e].pc \in SendPoints
    /\ TaskStep(e, AfterSend(tasks[e]))
    /\ UNCHANGED <<quiz_attempts, passed_quizzes, roles, kotoba_request_lock>>

\* A request to Discord fails (discord.HTTPException): nothing in the
\* listener catches it.
ExternalPoints == SendPoints \cup {"remove", "add", "announce_rank"}

ExternalFails(e) ==
    /\ tasks[e].pc \in ExternalPoints
    /\ TaskStep(e, Ended(tasks[e], "Raised"))
    /\ UNCHANGED <<quiz_attempts, passed_quizzes, roles, kotoba_request_lock>>

Proceeds(e) ==
    \/ AcquireLock(e)
    \/ Settled(e)
    \/ FetchReturns(e)
    \/ InsertPassed(e)
    \/ GetPassed(e)
    \/ RemoveRole(e)
    \/ AddRoleToMember(e)
    \/ AnnounceRank(e)
    \/ RegisterAttempt(e)
    \/ Send(e)

RaceNext ==
    \E e \in Evaluations :
       \/ Arrive(e)
       \/ Proceeds(e)
       \/ FetchRaises(e)
       \/ FetchHangs(e)
       \/ ExternalFails(e)

SpecRace == RaceInit /\ [][RaceNext]_vars

\* The event loop runs every task that can go on.
SpecRaceFair == SpecRace /\ \A e \in Evaluations : WF_vars(Proceeds(e))

\* Rank resolution: the quiz bot posts passing reports of member u1 whose
\* decks are any one or two of the decks below, the first of them possibly
\* without a name.
ResolveIndexKinds ==
    { [k |-> "none"], [k |-> "both", startIndex |-> 1, endIndex |-> 2],
      [k |-> "both", startIndex |-> 0, endIndex |-> 2] }

ResolveDecks(names) == {Deck(name, FALSE, index) : name \in names, index \in ResolveIndexKinds}

ResolveDeckLists ==
    {<<first>> : first \in ResolveDecks({"bronze", "svocab", "sgrammar", "other", ""})}
        \cup {<<first, second>> : first \in ResolveDecks({"bronze", "sgrammar", ""}),
                                  second \in ResolveDecks({"bronze", "svocab"})}

DeckReport(decks) == [ReportOf(RankNamed("Bronze"), <<"u1">>, 2) EXCEPT !.decks = decks]

ResolveReports == {EndedReport(<<"report", decks>>, DeckReport(decks)) : decks \in ResolveDeckLists}

ResolveInit ==
    /\ VerifierIdle
    /\ TablesEmpty
    /\ now = WednesdayTen
    /\ position = ConfiguredOrder

ObserveDeckReport == \E message \in ResolveReports : OnMessage(message, MaxCharged)

ResolveNext == ObserveDeckReport

SpecResolve == ResolveInit /\ [][ResolveNext]_vars

\* Two selections in the menu of the first guild under way at once.  Member
\* u2 failed SilverVocab this week; threads get archived and deleted meanwhile.
SelectRanks == {"Bronze", "SilverVocab"}

SelectInit ==
    /\ VerifierIdle
    /\ quiz_attempts = ADD_QUIZ_ATTEMPT(<<>>, Guild, "u2", "SilverVocab", WednesdayTen)
    /\ passed_quizzes = {}
    /\ roles = [user \in Users |-> {}]
    /\ outcome = NoOutcome
    /\ user_threads = [user \in Users |-> <<>>]
    /\ threads = <<>>
    /\ sweeper = "running"
    /\ NoTasks
    /\ now = WednesdayTen
    /\ position = ConfiguredOrder

SelectionStep(s, selection) ==
    /\ selections' = [selections EXCEPT ![s] = selection]
    /\ UNCHANGED <<now, quiz_attempts, passed_quizzes, roles, position, outcome, sweeper,
                   tasks, kotoba_request_lock>>
    /\ UNCHANGED verify_vars

\* A member selects a quiz: the callback runs up to the read of the last attempt.
Select(s) ==
    /\ selections[s].pc = "idle"
    /\ \E user \in Users, rank \in SelectRanks :
          SelectionStep(s, Selection("cooldown", user, rank, 0, "none"))
    /\ UNCHANGED <<user_threads, threads>>

\* is_on_cooldown_create: bot.GET_ONE(GET_LAST_QUIZ_ATTEMPT, ...)
ReadCooldown(s) ==
    LET selection == selections[s]
        cooldown == is_on_cooldown_create(quiz_attempts, now, Guild, selection.user,
                                          selection.rank, rank_has_cooldown(selection.rank))
    IN /\ selection.pc = "cooldown"
       /\ SelectionStep(s, [selection EXCEPT !.pc = IF cooldown.on_cooldown THEN "notice"
                                                    ELSE "creating"])
       /\ UNCHANGED <<user_threads, threads>>

\* interaction.followup.send: the cooldown notice, after which the callback
\* returns, or the notice that the thread is being created.
Followup(s) ==
    LET selection == selections[s]
    IN /\ selection.pc \in {"notice", "creating"}
       /\ SelectionStep(s, IF selection.pc = "notice"
                           THEN SelectionEnded(selection, "MenuOnCooldown")
                           ELSE [selection EXCEPT !.pc = "lookup"])
       /\ UNCHANGED <<user_threads, threads>>

\* bot.GET_ONE(GET_USER_THREAD, ...), then guild.get_thread
Lookup(s) ==
    LET selection == selections[s]
        quiz_thread_record == GET_USER_THREAD(user_threads, selection.user)
    IN /\ selection.pc = "lookup"
       /\ SelectionStep(s,
             IF quiz_thread_record = <<>> THEN [selection EXCEPT !.pc = "create"]
             ELSE IF get_thread(Guild, threads, quiz_thread_record[1])
             THEN [selection EXCEPT !.thread = quiz_thread_record[1],
                                    !.pc = NextThreadAwait(1, threads[quiz_thread_record[1]],
                                                           selection.user)]
             ELSE [selection EXCEPT !.thread = quiz_thread_record[1], !.pc = "fetch"])
       /\ UNCHANGED <<user_threads, threads>>

\* guild.fetch_channel(thread_id)
FetchChannel(s) ==
    LET selection == selections[s]
        resolved == ResolveThread(Guild, threads, selection.thread)
    IN /\ selection.pc = "fetch"
       /\ SelectionStep(s,
             IF resolved = "found"
             THEN [selection EXCEPT !.pc = NextThreadAwait(1, threads[selection.thread],
                                                          selection.user)]
             ELSE IF resolved = "NotFound" THEN [selection EXCEPT !.thread = 0, !.pc = "create"]
             ELSE SelectionEnded(selection, "MenuRaised"))
       /\ UNCHANGED <<user_threads, threads>>

\* interaction.channel.create_thread
CreateThread(s) ==
    LET selection == selections[s]
    IN /\ selection.pc = "create"
       /\ threads' = Append(threads, NewThread(Guild, selection.user, now))
       /\ SelectionStep(s, [selection EXCEPT !.thread = Len(threads) + 1, !.pc = "upsert"])
       /\ UNCHANGED user_threads

\* bot.RUN(ADD_USER_THREAD, ...)
UpsertThread(s) ==
    LET selection == selections[s]
    IN /\ selection.pc = "upsert"
       /\ user_threads' = ADD_USER_THREAD(user_threads, selection.user, selection.thread)
       /\ SelectionStep(s, [selection EXCEPT !.pc = NextThreadAwait(1, threads[selection.thread],
                                                                    selection.user)])
       /\ UNCHANGED threads

\* quiz_thread.edit, quiz_thread.add_user (twice) and quiz_thread.send (twice);
\* a request for a thread that was deleted raises discord.NotFound.
ThreadRequest(s) ==
    LET selection == selections[s]
        thread == threads[selection.thread]
        changed == CASE selection.pc = "edit" -> quiz_thread_edit(thread)
                     [] selection.pc = "add_bot" -> add_one_user(thread, KOTOBA_BOT_ID)
                     [] selection.pc = "add_member" -> add_one_user(thread, selection.user)
                     [] OTHER -> Sent(thread, now)
        next == CASE selection.pc = "edit" -> NextThreadAwait(2, changed, selection.user)
                  [] selection.pc = "add_bot" -> NextThreadAwait(3, changed, selection.user)
                  [] selection.pc = "add_member" -> "send_intro"
                  [] selection.pc = "send_intro" -> "send_command"
                  [] OTHER -> "done"
    IN /\ selection.pc \in {"edit", "add_bot", "add_member", "send_intro", "send_command"}
       /\ IF ~thread.exists
          THEN /\ SelectionStep(s, SelectionEnded(selection, "MenuRaised"))
               /\ UNCHANGED threads
          ELSE /\ threads' = [threads EXCEPT ![selection.thread] = changed]
               /\ SelectionStep(s, IF next = "done" THEN SelectionEnded(selection, "MenuThread")
                                   ELSE [selection EXCEPT !.pc = next])
       /\ UNCHANGED user_threads

SelectNext ==
    \/ \E s \in Selections :
          \/ Select(s)
          \/ ReadCooldown(s)
          \/ Followup(s)
          \/ Lookup(s)
          \/ FetchChannel(s)
          \/ CreateThread(s)
          \/ UpsertThread(s)
          \/ ThreadRequest(s)
    \/ AutoArchive
    \/ ThreadDeleted

SpecSelect == SelectInit /\ [][SelectNext]_vars

\* The verifier alone: one call on every case.
VerifyInit ==
    /\ VerifyInputFrom(ReferenceCase, 1, MaxChanged)
    /\ verdict = NotVerified
    /\ TablesEmpty
    /\ now = 0
    /\ position = ConfiguredOrder

\* QuizResultVerifier.Verify: one call of verify_quiz_settings.
Verify ==
    /\ verdict = NotVerified
    /\ verdict' = verify_quiz_settings(quiz_data, quiz_result, 1)
    /\ UNCHANGED <<quiz_data, quiz_result>>
    /\ UNCHANGED engine_vars
    /\ UNCHANGED background_vars

VerifyNext == Verify

SpecVerify == VerifyInit /\ [][VerifyNext]_vars

(***************************************************************************)
(* Claims about the verifier, checked under SpecVerify.                    *)
(***************************************************************************)
Verified == verdict # NotVerified

\* The checks of Verify as the specification lists them (section 4.1); the
\* first is that exactly one participant is reported.
NotOneParticipant(result) == Len(result.participants) # 1

IndexPolicyHolds(data, result) ==
    IF data.deck_range # NoRange
    THEN \A i \in 1..Len(result.decks) :
            /\ HasKey(result.decks[i], "startIndex")
            /\ HasKey(result.decks[i], "endIndex")
            /\ result.decks[i].startIndex = data.deck_range[1]
            /\ result.decks[i].endIndex = data.deck_range[2]
    ELSE \A i \in 1..Len(result.decks) :
            /\ HasKey(result.decks[i], "startIndex") => result.decks[i].startIndex = 0
            /\ HasKey(result.decks[i], "endIndex") => result.decks[i].endIndex = 0

AchievedScore(result) == result.scores[1].score

\* Whether the k-th check of the list is violated.
CheckViolated(k, data, result) ==
    CASE k = 1 -> NotOneParticipant(result)
      [] k = 2 -> ~result.settings.shuffle
      [] k = 3 -> result.isLoaded
      [] k = 4 -> \E i \in 1..Len(result.decks) : result.decks[i].mc
      [] k = 5 -> ~IndexPolicyHolds(data, result)
      [] k = 6 -> data.foreground # None /\ result.settings.fontColor # data.foreground
      [] k = 7 -> data.effect # None /\ result.settings.effect # data.effect
      [] k = 8 -> result.settings.scoreLimit # data.score_limit
      [] k = 9 -> result.settings.answerTimeLimitInMs > data.time_limit
      [] k = 10 -> data.font # None /\ result.settings.font # data.font
      [] k = 11 -> data.font_size # None /\ result.settings.fontSize # data.font_size
      [] k = 12 -> /\ result.scores # <<>>
                   /\ result.questions - AchievedScore(result) >= data.max_missed
      [] k = 13 -> result.scores # <<>> /\ AchievedScore(result) # data.score_limit

\* The reasons by which the k-th check fails.
CheckReasons(k, data, result) ==
    CASE k = 1 -> {ReasonParticipants}
      [] k = 2 -> {ReasonShuffle}
      [] k = 3 -> {ReasonLoaded}
      [] k = 4 -> {ReasonMultipleChoice}
      [] k = 5 -> {ReasonWrongStart, ReasonWrongEnd, ReasonNoIndex, ReasonHasStart, ReasonHasEnd}
      [] k = 6 -> {ReasonColor}
      [] k = 7 -> {ReasonEffect}
      [] k = 8 -> {ReasonScoreLimit}
      [] k = 9 -> {ReasonTimeLimit}
      [] k = 10 -> {ReasonFont}
      [] k = 11 -> {ReasonFontSize}
      [] k = 12 -> {ReasonMissed(AchievedScore(result), data.score_limit)}
      [] k = 13 -> {ReasonScore(AchievedScore(result), data.score_limit)}

CheckNumbers == 1..13

ViolatedChecks(data, result) == {k \in CheckNumbers : CheckViolated(k, data, result)}

EarliestViolated(data, result) ==
    CHOOSE k \in ViolatedChecks(data, result) :
        \A j \in ViolatedChecks(data, result) : k <= j

\* C7: the checks are evaluated in the listed order and the first failing
\* check decides: whenever a report violates one or more checks, Verify
\* returns failure with the reason of the earliest violated check.
C7_FirstFailingCheckDecides ==
    (Verified /\ ViolatedChecks(quiz_data, quiz_result) # {}) =>
        /\ ~verdict.raised
        /\ ~verdict.ok
        /\ verdict.reason \in
              CheckReasons(EarliestViolated(quiz_data, quiz_result), quiz_data, quiz_result)

\* C8: for a report that passes the participant, shuffle, loaded,
\* multiple-choice, index, colour, effect, font and font size checks, Verify
\* returns success exactly if the score limits are equal, the report's answer
\* time limit is at most the rules', fewer than max_missed questions were
\* missed and the achieved score equals the score limit.
PassesSettingChecks(data, result) ==
    \A k \in {1, 2, 3, 4, 5, 6, 7, 10, 11} : ~CheckViolated(k, data, result)

C8_SuccessIffScoreChecksPass ==
    (Verified /\ PassesSettingChecks(quiz_data, quiz_result)) =>
        ( (~verdict.raised /\ verdict.ok) <=>
            /\ quiz_result.settings.scoreLimit = quiz_data.score_limit
            /\ quiz_result.settings.answerTimeLimitInMs <= quiz_data.time_limit
            /\ quiz_result.questions - AchievedScore(quiz_result) < quiz_data.max_missed
            /\ AchievedScore(quiz_result) = quiz_data.score_limit )

\* A report stricter than the rules' time limit that is accepted.
C8_Witness ==
    /\ Verified
    /\ PassesSettingChecks(quiz_data, quiz_result)
    /\ quiz_result.settings.answerTimeLimitInMs < quiz_data.time_limit
    /\ verdict.ok

\* C9: a report whose participant count differs from 1 fails at the first
\* check, with the participant reason.
C9_OnlyOneParticipantAccepted ==
    (Verified /\ Len(quiz_result.participants) # 1) =>
        verdict = Returned(FALSE, ReasonParticipants)

\* C10: a constraint the rules leave unset is never checked: with the
\* foreground colour unset (likewise effect, font, font size) the report's
\* value of that setting never causes the rejection, and any two reports
\* that differ only in it get the same verdict and the same reason.
WithSetting(result, setting, value) ==
    [result EXCEPT !.settings = [result.settings EXCEPT ![setting] = value]]

SettingIgnored(setting, values, reason) ==
    /\ verdict.reason # reason
    /\ \A v \in values :
          verify_quiz_settings(quiz_data, WithSetting(quiz_result, setting, v), 1) = verdict

C10_AbsentConstraintsNeverChecked ==
    Verified =>
        /\ quiz_data.foreground = None => SettingIgnored("fontColor", Colors, ReasonColor)
        /\ quiz_data.effect = None => SettingIgnored("effect", Effects, ReasonEffect)
        /\ quiz_data.font = None => SettingIgnored("font", Fonts, ReasonFont)
        /\ quiz_data.font_size = None => SettingIgnored("fontSize", FontSizes, ReasonFontSize)

\* No colour is required, the report's colour is not the reference one, and
\* the report is accepted.
C10_Witness ==
    /\ Verified
    /\ quiz_data.foreground = None
    /\ quiz_result.settings.fontColor = "c2"
    /\ verdict.ok

\* C11: the index-range policy.  For a report that reaches the index check
\* (one participant at most, shuffled, not loaded, no multiple-choice deck):
\* when the rules specify a range the check passes exactly if every deck
\* carries that start index and that end index, a deck without an index
\* failing; when the rules specify none it passes exactly if no deck carries
\* a non-empty start or end index.
ReachesIndexCheck ==
    /\ Verified
    /\ verdict.reason \notin
          {ReasonParticipants, ReasonShuffle, ReasonLoaded, ReasonMultipleChoice}

SpecifiedIndexReasons == {ReasonWrongStart, ReasonWrongEnd, ReasonNoIndex}

UnspecifiedIndexReasons == {ReasonHasStart, ReasonHasEnd}

C11_IndexRangePolicy ==
    ReachesIndexCheck =>
        IF IndexPolicyHolds(quiz_data, quiz_result)
        THEN verdict.reason \notin SpecifiedIndexReasons \cup UnspecifiedIndexReasons
        ELSE /\ ~verdict.raised
             /\ ~verdict.ok
             /\ verdict.reason \in
                   (IF quiz_data.deck_range # NoRange
                    THEN SpecifiedIndexReasons ELSE UnspecifiedIndexReasons)

\* The rules specify a range, the first deck carries it and a second deck
\* carries no index: the report is refused for the missing index.
C11_Witness ==
    /\ Verified
    /\ quiz_data.deck_range = <<1, 2>>
    /\ Len(quiz_result.decks) = 2
    /\ HasKey(quiz_result.decks[1], "endIndex")
    /\ quiz_result.decks[1].startIndex = 1
    /\ quiz_result.decks[1].endIndex = 2
    /\ ~HasKey(quiz_result.decks[2], "startIndex")
    /\ verdict = Returned(FALSE, ReasonNoIndex)

(***************************************************************************)
(* Claims about the rank progression engine, checked under Spec.           *)
(***************************************************************************)
RankRolesOf(member_roles) == member_roles \cap ExistingQuizRoles

\* The standing of a member: the position of the highest rank role held, 0
\* when none is held.
Standing(member_roles, pos) ==
    IF RankRolesOf(member_roles) = {} THEN 0
    ELSE LET top == CHOOSE r \in RankRolesOf(member_roles) :
                        \A s \in RankRolesOf(member_roles) : pos[s] <= pos[r]
         IN pos[top]

PassedBy(user) == {row[3] : row \in {r \in passed_quizzes : r[1] = Guild /\ r[2] = user}}

\* C1: no step removes a rank role a member holds and leaves the member with
\* a rank role of equal or lower standing; the standing of the rank a member
\* holds never decreases.
C1_NoDowngrade ==
    [][\A user \in Users :
          /\ Standing(roles'[user], position) >= Standing(roles[user], position)
          /\ \A removed \in RankRolesOf(roles[user]) \ roles'[user] :
                \A held \in RankRolesOf(roles'[user]) :
                   position[held] > position[removed]]_vars

\* A member who passed Bronze and held its role now holds a higher role instead.
C1_Witness ==
    \E user \in Users :
       /\ outcome.kind = "Rewarded"
       /\ outcome.member = user
       /\ outcome.granted # <<>>
       /\ "Bronze" \in PassedBy(user)
       /\ "Bronze" \notin roles[user]
       /\ Standing(roles[user], position) > position["Bronze"]

\* C2: a successful report evaluated twice in a row leaves the passed
\* quizzes and the roles as the first evaluation left them, and the second
\* evaluation grants no role.
C2_SecondEvaluationChangesNothing ==
    \A message \in QuizReports(Users) :
       LET once == level_up_routine(message, now, quiz_attempts, passed_quizzes, roles,
                                    position, user_threads)
           twice == level_up_routine(message, now, once.quiz_attempts, once.passed_quizzes,
                                     once.roles, position, user_threads)
       IN once.outcome.verified = "ok" =>
             /\ twice.passed_quizzes = once.passed_quizzes
             /\ twice.roles = once.roles
             /\ twice.outcome.granted = <<>>
             /\ \A user \in Users :
                   Standing(twice.roles[user], position) >= Standing(roles[user], position)

\* The passing Bronze report of a member who got the role from it was
\* evaluated again and skipped.
C2_Witness ==
    /\ outcome.kind = "SkippedAlreadyHeld"
    /\ outcome.verified = "ok"
    /\ outcome.quiz = "Bronze"
    /\ roles[outcome.member] = {"Bronze"}
    /\ "Bronze" \in PassedBy(outcome.member)

CombinationRanks == {rank_structure[i] : i \in {j \in RankIndexes : rank_structure[j].combination_rank}}

RequiredBy(rank) == {rank.quizzes_required[i] : i \in 1..Len(rank.quizzes_required)}

\* C3: a step records a combination rank as passed by a member only if
\* every quiz the rank requires is among the passed quizzes of that member
\* in that guild, and it gives a member the role of combination ranks only
\* if that holds of one of the combination ranks that grant the role.
C3_CompositeNeedsAllPrerequisites ==
    [][\A user \in Users :
          LET qualifies(rank) ==
                  \A quiz_name \in RequiredBy(rank) :
                     <<Guild, user, quiz_name>> \in passed_quizzes'
          IN \A rank \in CombinationRanks :
                /\ <<Guild, user, rank.name>> \in passed_quizzes' \ passed_quizzes
                      => qualifies(rank)
                /\ rank.rank_to_get \in roles'[user] \ roles[user]
                      => \E granting \in CombinationRanks :
                            /\ granting.rank_to_get = rank.rank_to_get
                            /\ qualifies(granting)]_vars

\* A member was granted Gold while the other member has passed one of the two
\* quizzes Gold requires and holds no combination rank.
C3_Witness ==
    \E user \in Users : \E other \in Users \ {user} :
       /\ outcome.kind = "Rewarded"
       /\ outcome.member = user
       /\ "Gold" \in roles[user]
       /\ {"SilverVocab", "SilverGrammar"} \subseteq PassedBy(user)
       /\ "SilverGrammar" \in PassedBy(other)
       /\ "SilverVocab" \notin PassedBy(other)
       /\ roles[other] \cap {"Silver", "Gold"} = {}

\* The member of a report and the rank it is a report of.
ReportMember(message) == message.fetched.participants[1].discordUser.id

ReportRank(message) == get_corresponding_quiz_data(message.fetched)[1]

\* An attempt of the member at the quiz is recorded and now is before the
\* Sunday boundary of the latest one.
InsideCooldownWindow(user, quiz_name) ==
    LET last_attempt == GET_LAST_QUIZ_ATTEMPT(quiz_attempts, Guild, user, quiz_name)
    IN last_attempt # <<>> /\ now < get_next_sunday_midnight_from(last_attempt[2])

\* C6: no report of a quiz with a cooldown that is observed while its member
\* is inside the cooldown window of that quiz ends in Rewarded, adds a passed
\* quiz or changes the roles of the member.
C6_NoRewardInsideCooldownWindow ==
    [][\A message \in QuizReports(Users) :
          (/\ OnMessage(message, MaxCharged)
           /\ rank_has_cooldown(ReportRank(message).name)
           /\ InsideCooldownWindow(ReportMember(message), ReportRank(message).name))
             => /\ outcome'.kind # "Rewarded"
                /\ passed_quizzes' = passed_quizzes
                /\ roles'[ReportMember(message)] = roles[ReportMember(message)]]_vars

\* The rank of the report requires a role and the member does not hold it.
PrerequisiteMissing(message) ==
    /\ ReportRank(message).require_role # None
    /\ get_role(ReportRank(message).require_role) \notin roles[ReportMember(message)]

\* C12: a report of a rank that requires a role, observed while the member
\* does not hold that role, changes nothing: no attempt row and no passed
\* quiz is added and no role changes, whether the report passes or fails
\* the verification.
C12_MissingPrerequisiteChangesNothing ==
    [][\A message \in QuizReports(Users) :
          (OnMessage(message, MaxCharged) /\ PrerequisiteMissing(message))
             => /\ quiz_attempts' = quiz_attempts
                /\ passed_quizzes' = passed_quizzes
                /\ roles' = roles]_vars

\* The step evaluated a report: it matched a rank and named its member.
Evaluated(o) == o.quiz # None

\* The evaluated report's rank carries a reward role and the member held a
\* rank role of that standing or of a higher one.
HeldEqualOrHigher(o, member_roles) ==
    LET role_to_get == get_role(RankNamed(o.quiz).rank_to_get)
    IN /\ role_to_get # None
       /\ Standing(member_roles[o.member], position) >= position[role_to_get]

\* C13: a report that would reward a rank role, observed while the member
\* holds a rank role of equal or higher standing, ends in SkippedAlreadyHeld:
\* the passed quizzes, the attempts and the roles are unchanged and no
\* message is sent, whether the report passes or fails.
C13_AlreadyHeldIsSkipped ==
    [][(Evaluated(outcome') /\ HeldEqualOrHigher(outcome', roles))
          => /\ outcome'.kind = "SkippedAlreadyHeld"
             /\ outcome'.sent = <<>>
             /\ outcome'.granted = <<>>
             /\ passed_quizzes' = passed_quizzes
             /\ quiz_attempts' = quiz_attempts
             /\ roles' = roles]_vars

\* A holder of Gold, which stands above Bronze, failed the Bronze quiz and
\* the report was skipped.
C13_Witness ==
    /\ outcome.kind = "SkippedAlreadyHeld"
    /\ outcome.quiz = "Bronze"
    /\ outcome.verified = "failed"
    /\ "Gold" \in roles[outcome.member]
    /\ position["Gold"] > position["Bronze"]
    /\ quiz_attempts = <<>>

\* What the handler has done when it starts to reward a member.
RewardStart(user) ==
    [roles |-> roles[user], passed |-> passed_quizzes, sent |-> <<>>, granted |-> <<>>]

\* The ranks that carry a reward role.
RewardingRanks == {rank_structure[i] : i \in {j \in RankIndexes : rank_structure[j].rank_to_get # None}}

\* C15: a reward swaps and never adds: rewarding a member for a rank that
\* carries a reward role leaves the member with that role and with no other
\* rank role, the rank roles of a member after an evaluation that granted
\* roles are the last role granted, and in every state a member holds at
\* most one rank role.
C15_HierarchySwap ==
    \A user \in Users :
       /\ Cardinality(RankRolesOf(roles[user])) <= 1
       /\ \A rank \in RewardingRanks :
             RankRolesOf(reward_user(RewardStart(user), user, rank, position).roles)
                = {rank.rank_to_get}
       /\ (outcome.member = user /\ outcome.granted # <<>>)
             => RankRolesOf(roles[user]) = {outcome.granted[Len(outcome.granted)]}

\* A holder of Bronze passed SilverVocab and holds Silver in place of Bronze.
C15_Witness ==
    /\ outcome.kind = "Rewarded"
    /\ outcome.quiz = "SilverVocab"
    /\ outcome.granted = <<"Silver">>
    /\ roles[outcome.member] = {"Silver"}
    /\ "Bronze" \in PassedBy(outcome.member)

\* The passed quizzes of the member once the pass of the evaluated report is
\* recorded, and the member's roles once the reward of its rank is applied.
PassedAfterPass(o) == PassedBy(o.member) \cup {o.quiz}

RolesAfterOwnReward(o) ==
    IF RankNamed(o.quiz).rank_to_get # None
    THEN (roles[o.member] \ ExistingQuizRoles) \cup {RankNamed(o.quiz).rank_to_get}
    ELSE roles[o.member]

\* C16: every successful evaluation tries the combination ranks after the
\* pass is recorded and the reward applied, whether or not the passed rank
\* carries a reward role: a combination rank all of whose required quizzes
\* are then passed, while the member holds no rank role of equal or higher
\* standing, is granted in that evaluation or outranked by one that is.
\* (Stated for a guild whose role positions follow the declaration order.)
C16_EverySuccessTriesCombinationRanks ==
    [][(outcome'.kind = "Rewarded" /\ position = ConfiguredOrder)
          => \A rank \in CombinationRanks :
                (/\ RequiredBy(rank) \subseteq PassedAfterPass(outcome')
                 /\ Standing(RolesAfterOwnReward(outcome'), position)
                       < position[rank.rank_to_get])
                   => /\ outcome'.granted # <<>>
                      /\ Standing(roles'[outcome'.member], position)
                            >= position[rank.rank_to_get]]_vars

\* The combination ranks a member qualifies for: every required quiz passed.
QualifyingRanks(user) ==
    {rank \in CombinationRanks : RequiredBy(rank) \subseteq PassedBy(user)}

\* C17: one pass over the combination ranks grants at most one of them: in
\* every state, for every member, check_if_combination_rank_earned grants
\* at most one role, sends at most one announcement and adds at most one
\* passed quiz, and the evaluation of a report of a rank without reward role
\* has granted at most one role.
C17_OneCombinationRankPerPass ==
    /\ \A user \in Users :
          \E pass \in {check_if_combination_rank_earned(RewardStart(user), user, position)} :
             /\ Len(pass.granted) <= 1
             /\ Len(pass.sent) <= 1
             /\ Cardinality(pass.passed \ passed_quizzes) <= 1
             /\ pass.granted # <<>> =>
                   /\ pass.roles = (roles[user] \ ExistingQuizRoles) \cup {pass.granted[1]}
                   /\ \E rank \in QualifyingRanks(user) : rank.rank_to_get = pass.granted[1]
    /\ (outcome.kind = "Rewarded" /\ RankNamed(outcome.quiz).rank_to_get = None)
          => Len(outcome.granted) <= 1

\* How an event that is not evaluated ends, and how a rejected evaluation ends.
DroppedKinds == {"Ignored", "InvalidCommand", "NoReport", "FetchRaised", "NoMatchingRank", "Raised"}

RejectedKinds == {"Rejected", "RequiredRoleMissing"}

\* C18: rows are written only by the stated outcomes: a step adds an attempt
\* row only if it evaluated a report that failed the verification for a rank
\* with a cooldown, it adds a passed quiz only if it evaluated a report that
\* passed the verification, and a skipped, rejected or dropped event adds no
\* row.
C18_RowsOnlyByStatedOutcomes ==
    [][/\ Len(quiz_attempts') > Len(quiz_attempts)
            => /\ outcome'.verified = "failed"
               /\ ~RankNamed(outcome'.quiz).no_timeout
       /\ passed_quizzes' # passed_quizzes => outcome'.verified = "ok"
       /\ outcome'.kind \in DroppedKinds \cup RejectedKinds \cup {"SkippedAlreadyHeld"}
            => /\ quiz_attempts' = quiz_attempts
               /\ passed_quizzes' = passed_quizzes]_vars

\* A failed report of the exempt SilverGrammar was rejected and added no
\* row; the rows there are come from one charged attempt and from passes.
C18_Witness ==
    /\ outcome.kind = "Rejected"
    /\ outcome.quiz = "SilverGrammar"
    /\ Len(quiz_attempts) = 1
    /\ quiz_attempts[1].quiz_name # "SilverGrammar"
    /\ passed_quizzes # {}

(***************************************************************************)
(* Claims about the Sunday boundary, checked under SpecBoundary, and about *)
(* the cooldown, checked under SpecCooldown.                               *)
(***************************************************************************)
IsSundayMidnight(t) == t % TicksPerDay = 0 /\ (t \div TicksPerDay) % 7 = 6

\* C4: the boundary of an attempt at time t is the earliest Sunday 00:00
\* that is strictly later than t, so later than t and at most 7 days later;
\* Wednesday 10:00 gives the Sunday of that week, Sunday 00:00 the next one.
C4_BoundaryIsNextSundayMidnight ==
    outcome.kind = "CooldownCharged" =>
        \E boundary \in (now + 1)..(now + WeekTicks) :
           /\ outcome.next_attempt = <<boundary>>
           /\ IsSundayMidnight(boundary)
           /\ \A t \in (now + 1)..(boundary - 1) : ~IsSundayMidnight(t)
           /\ is_on_cooldown(quiz_attempts, now, Guild, outcome.member, outcome.quiz, TRUE)
                 = [on_cooldown |-> TRUE, next_attempt |-> <<boundary>>]
           /\ (now = WednesdayTen => boundary = SundayMidnight)
           /\ (now = SundayMidnight => boundary = SundayMidnight + WeekTicks)

\* An attempt at exactly Sunday 00:00 was charged.
C4_Witness ==
    /\ outcome.kind = "CooldownCharged"
    /\ now = SundayMidnight
    /\ Len(quiz_attempts) = 1
    /\ quiz_attempts[1].created_at = SundayMidnight

\* The times the cooldown is asked about after now.
LaterTimes == now..(MaxTime + WeekTicks)

CooldownAt(at, user, quiz_name) ==
    is_on_cooldown(quiz_attempts, at, Guild, user, quiz_name, rank_has_cooldown(quiz_name))

CooldownCreateAt(at, user, quiz_name) ==
    is_on_cooldown_create(quiz_attempts, at, Guild, user, quiz_name,
                          rank_has_cooldown(quiz_name))

\* C5: with the attempts as they are, a member who is on cooldown for a quiz
\* now, with next attempt time N, is on cooldown at every later time before N
\* and is not on cooldown at N and at every time after N.
C5_CooldownMonotonic ==
    \A user \in Users : \A quiz_name \in MenuOptions :
       /\ CooldownCreateAt(now, user, quiz_name) = CooldownAt(now, user, quiz_name)
       /\ CooldownAt(now, user, quiz_name).on_cooldown =>
             LET boundary == CooldownAt(now, user, quiz_name).next_attempt[1]
                 until == [on_cooldown |-> TRUE, next_attempt |-> <<boundary>>]
             IN \A later \in LaterTimes :
                   /\ CooldownAt(later, user, quiz_name)
                         = IF later < boundary THEN until ELSE NotOnCooldown
                   /\ CooldownCreateAt(later, user, quiz_name)
                         = IF later < boundary THEN until ELSE NotOnCooldown

\* The menu refused a quiz some time after the attempt that started the
\* cooldown, and the time of the boundary itself is still to come.
C5_Witness ==
    /\ outcome.kind = "MenuOnCooldown"
    /\ \E i \in 1..Len(quiz_attempts) : quiz_attempts[i].created_at < now
    /\ outcome.next_attempt # <<>>
    /\ now < outcome.next_attempt[1]
    /\ outcome.next_attempt[1] <= MaxTime

\* The step evaluated a report that failed the verification: of the steps
\* that leave the time as it is, only an evaluation ends with a verdict.
FailedEvaluation == now' = now /\ outcome'.verified = "failed"

\* C14: a report that fails the verification, of a member who holds no rank
\* role of equal or higher standing, leaves the passed quizzes and the roles
\* unchanged; for a rank with a cooldown it appends exactly one attempt row
\* (guild, member, quiz, now) and reports the Sunday 00:00 that follows now
\* as the next attempt time (CooldownCharged); for an exempt rank it persists
\* nothing (Rejected).
C14_FailureChargesCooldownOrRejects ==
    [][(/\ FailedEvaluation
        /\ ~HeldEqualOrHigher(outcome', roles))
          => /\ passed_quizzes' = passed_quizzes
             /\ roles' = roles
             /\ outcome'.granted = <<>>
             /\ IF ~RankNamed(outcome'.quiz).no_timeout
                THEN /\ outcome'.kind = "CooldownCharged"
                     /\ quiz_attempts' =
                           Append(quiz_attempts,
                                  [guild_id |-> Guild, user_id |-> outcome'.member,
                                   quiz_name |-> outcome'.quiz, created_at |-> now])
                     /\ \E boundary \in (now + 1)..(now + WeekTicks) :
                           /\ IsSundayMidnight(boundary)
                           /\ outcome'.next_attempt = <<boundary>>
                ELSE /\ outcome'.kind = "Rejected"
                     /\ outcome'.next_attempt = <<>>
                     /\ quiz_attempts' = quiz_attempts]_vars

\* A failed Bronze attempt in the last hour of a Saturday was charged, and
\* the next attempt time is the midnight one hour later.
C14_Witness ==
    /\ outcome.kind = "CooldownCharged"
    /\ outcome.quiz = "Bronze"
    /\ now = SundayMidnight - 1
    /\ outcome.next_attempt = <<SundayMidnight>>
    /\ quiz_attempts # <<>>
    /\ quiz_attempts[Len(quiz_attempts)].created_at = now
    /\ roles[outcome.member] = {}

(***************************************************************************)
(* Claims about the attempts table, checked under SpecAttempts.            *)
(***************************************************************************)
IsPrefix(s, t) == Len(s) <= Len(t) /\ SubSeq(t, 1, Len(s)) = s

\* The rows a reset of the member is to clear: all of the member's, or the
\* member's rows of the named quiz.
ClearedBy(row, user, quiz_to_reset) ==
    /\ row.guild_id = Guild
    /\ row.user_id = user
    /\ quiz_to_reset # None => row.quiz_name = quiz_to_reset

\* C19 as stated: the attempts table is strictly append-only: every step
\* keeps every recorded row, unmodified and in its place.
C19_StrictlyAppendOnly ==
    [][IsPrefix(quiz_attempts, quiz_attempts')]_vars

\* C19, amended: the attempts table is never deduplicated and is append-only
\* except for the reset command: a charged attempt appends one row even when
\* rows of the same (guild, user, quiz) are recorded, every step that is not
\* a reset keeps every recorded row unmodified and in its place, and a reset
\* removes exactly the rows of its member (all, or those of the quiz named)
\* and keeps the others as they are.
C19_AppendOnlyExceptReset ==
    [][/\ \A user \in Users, quiz_to_reset \in ResetInputs :
             ResetCooldown(user, quiz_to_reset)
                => quiz_attempts' =
                      SelectSeq(quiz_attempts,
                                LAMBDA row : ~ClearedBy(row, user, quiz_to_reset))
       /\ ~ResetAnyMember => IsPrefix(quiz_attempts, quiz_attempts')
       /\ (ObserveFailedReport /\ outcome'.kind = "CooldownCharged")
             => quiz_attempts' =
                   Append(quiz_attempts,
                          [guild_id |-> Guild, user_id |-> outcome'.member,
                           quiz_name |-> outcome'.quiz, created_at |-> now])]_vars

\* Two rows of the same member and quiz are recorded, the second charged
\* just now, beside the rows of nobody else.
C19_Witness ==
    /\ outcome.kind = "CooldownCharged"
    /\ Len(quiz_attempts) = 2
    /\ quiz_attempts[1].user_id = quiz_attempts[2].user_id
    /\ quiz_attempts[1].quiz_name = quiz_attempts[2].quiz_name
    /\ quiz_attempts[2].created_at = now

\* The rows recorded for a (guild, user, quiz) and the latest of them.
RowsOf(table, guild_id, user_id, quiz_name) ==
    SelectSeq(table, LAMBDA row : /\ row.guild_id = guild_id
                                  /\ row.user_id = user_id
                                  /\ row.quiz_name = quiz_name)

LatestOf(rows) ==
    rows[CHOOSE i \in 1..Len(rows) : \A j \in 1..Len(rows) : rows[j].created_at <= rows[i].created_at]

\* Rows that could be recorded beside those of the table: of either guild,
\* any member, any quiz, at the start, now or at the end of the time modelled.
PossibleRows ==
    [guild_id : {Guild, OtherGuild}, user_id : Users, quiz_name : MenuOptions,
     created_at : {0, now, MaxTime}]

\* C20: the cooldown verdict of a (guild, user, quiz) is that of its latest
\* recorded attempt alone: it is the verdict of a table that holds only that
\* row, a further row of another quiz, member or guild and a further row of
\* the same triple that is not later than the latest never change it, and
\* with no row of the triple, or for an exempt rank, the member is not on
\* cooldown.
C20_VerdictFromLatestAttemptOnly ==
    \A user \in Users, quiz_name \in MenuOptions :
       LET has_cooldown == ~RankNamed(quiz_name).no_timeout
           rows == RowsOf(quiz_attempts, Guild, user, quiz_name)
           verdict_of(table) ==
               is_on_cooldown(table, now, Guild, user, quiz_name, has_cooldown)
       IN /\ CooldownAt(now, user, quiz_name) = verdict_of(quiz_attempts)
          /\ CooldownCreateAt(now, user, quiz_name) = verdict_of(quiz_attempts)
          /\ (rows = <<>> \/ ~has_cooldown) => verdict_of(quiz_attempts) = NotOnCooldown
          /\ rows # <<>> =>
                /\ verdict_of(quiz_attempts) = verdict_of(<<LatestOf(rows)>>)
                /\ has_cooldown =>
                      verdict_of(quiz_attempts).on_cooldown
                         = (now < get_next_sunday_midnight_from(LatestOf(rows).created_at))
          /\ \A row \in PossibleRows :
                (\/ <<row.guild_id, row.user_id, row.quiz_name>> # <<Guild, user, quiz_name>>
                 \/ (rows # <<>> /\ row.created_at <= LatestOf(rows).created_at))
                   => verdict_of(Append(quiz_attempts, row)) = verdict_of(quiz_attempts)

\* Two attempts of a member at a quiz are recorded in different weeks: the
\* window of the first is over, and the member is on cooldown by the second.
C20_Witness ==
    \E user \in Users, quiz_name \in MenuOptions :
       /\ Len(RowsOf(quiz_attempts, Guild, user, quiz_name)) = 2
       /\ now >= get_next_sunday_midnight_from(quiz_attempts[1].created_at)
       /\ quiz_attempts[1].created_at < quiz_attempts[2].created_at
       /\ CooldownAt(now, user, quiz_name).on_cooldown

\* C21: a reset of a member for a quiz removes every attempt row of that
\* (guild, member, quiz), so the member is not on cooldown for the quiz
\* afterwards; a reset without a quiz removes every attempt row of the
\* member in the guild.  The other attempt rows, the passed quizzes and the
\* roles are unchanged.
C21_ResetClearsOnlyMatchingRows ==
    [][\A user \in Users, quiz_to_reset \in ResetInputs :
          ResetCooldown(user, quiz_to_reset)
             => LET kept(table) ==
                        SelectSeq(table, LAMBDA row : ~ClearedBy(row, user, quiz_to_reset))
                    cleared(table) ==
                        SelectSeq(table, LAMBDA row : ClearedBy(row, user, quiz_to_reset))
                IN /\ cleared(quiz_attempts') = <<>>
                   /\ kept(quiz_attempts') = kept(quiz_attempts)
                   /\ passed_quizzes' = passed_quizzes
                   /\ roles' = roles
                   /\ \A quiz_name \in MenuOptions :
                         (quiz_to_reset \in {None, quiz_name})
                            => ~is_on_cooldown(quiz_attempts', now, Guild, user, quiz_name,
                                               rank_has_cooldown(quiz_name)).on_cooldown]_vars

\* The Bronze attempts of u1 were reset and the SilverVocab attempt of u1
\* is still recorded.
C21_Witness ==
    /\ outcome.kind = "ResetQuiz"
    /\ outcome.member = "u1"
    /\ outcome.quiz = "Bronze"
    /\ Len(quiz_attempts) = 1
    /\ quiz_attempts[1].user_id = "u1"
    /\ quiz_attempts[1].quiz_name = "SilverVocab"
    /\ CooldownAt(now, "u1", "SilverVocab").on_cooldown

\* A thread the sweeper looks at, and the time of its last activity: that of
\* its last message or, with no message at hand, that of its creation.
ActiveThread(thread) == thread.exists /\ ~thread.archived

LastActivity(thread) ==
    IF LastMessageOf(thread) = "found" THEN thread.last_message_at ELSE thread.created_at

CompletedSweep == now' = now /\ outcome'.kind = "Swept"

\* Scenario F before the pass: an active thread with no message, created 20
\* days ago.
C22_Witness ==
    /\ sweeper = "running"
    /\ \E i \in 1..Len(threads) :
          /\ ActiveThread(threads[i])
          /\ threads[i].last_message = "none"
          /\ threads[i].created_at = now - 20 * TicksPerDay

\* C22: a pass of the sweeper that completes deletes every active thread
\* whose last activity (last message, or creation when there never was a
\* message) is more than 14 days old, and leaves every thread with a last
\* activity within 14 days as it was.
C22_SweepDeletesIdleThreads ==
    [][CompletedSweep =>
          \A i \in 1..Len(threads) :
             ActiveThread(threads[i]) =>
                IF LastActivity(threads[i]) < now - InactiveFor
                THEN ~threads'[i].exists
                ELSE threads'[i] = threads[i]]_vars

\* The thread a user's row of user_threads names, when it still exists.
LiveMapped(user) ==
    /\ user_threads[user] # <<>>
    /\ threads[user_threads[user][1]].exists

\* The handler opened or reopened this thread for the member.
UsesThread(o, thread_id) ==
    /\ o.kind = "MenuThread"
    /\ \E i \in 1..Len(o.sent) : o.sent[i][1] = "thread" /\ o.sent[i][2] = thread_id
    /\ \A i \in 1..Len(o.sent) : o.sent[i][1] = "thread" => o.sent[i][2] = thread_id

\* C23: table user_threads holds at most one row per user, whatever the
\* guild: a menu request of a user whose row names a live thread reuses that
\* thread for any quiz, in any guild, and creates none; a request that writes
\* a row leaves the user with that one row.
C23_OneThreadPerUser ==
    [][\A g \in 1..Len(Guilds), user \in Users, rank \in MenuOptions :
          SelectQuizIn(Guilds[g], user, rank) =>
             /\ \A u \in Users : Len(user_threads'[u]) <= 1
             /\ LiveMapped(user) =>
                   /\ UsesThread(outcome', user_threads[user][1])
                   /\ Len(threads') = Len(threads)
                   /\ user_threads' = user_threads
             /\ user_threads' # user_threads =>
                   /\ user_threads'[user] = <<Len(threads')>>
                   /\ \A u \in Users \ {user} : user_threads'[u] = user_threads[u]]_vars

\* The quiz bot posted a report that could not be fetched or parsed.
FetchFailure == now' = now /\ outcome'.kind = "FetchRaised"

\* C24: when the fetch of the report fails, the event is dropped: no role is
\* granted or removed, no row is written to passed_quizzes or quiz_attempts,
\* and every member is on cooldown for every quiz exactly as before.
C24_FetchFailureChangesNothing ==
    [][FetchFailure =>
          /\ roles' = roles
          /\ passed_quizzes' = passed_quizzes
          /\ quiz_attempts' = quiz_attempts
          /\ outcome'.sent = <<>> /\ outcome'.granted = <<>>
          /\ \A user \in Users, quiz_name \in MenuOptions :
                CooldownAt(now, user, quiz_name)' = CooldownAt(now, user, quiz_name)]_vars

\* An unfetchable report arrived while an attempt was on record.
C24_Witness ==
    /\ outcome.kind = "FetchRaised"
    /\ quiz_attempts # <<>>

\* The evaluation returned: no exception left the listener.
HasReturned(e) ==
    /\ tasks[e].pc = "done"
    /\ tasks[e].kind \notin {"Raised", "FetchRaised"}

\* What one evaluation of the report leaves when it runs alone from the start.
SingleEvaluation(id) ==
    level_up_routine(ReportWithId(id), now, <<>>, RaceStart.passed_quizzes, RaceStart.roles,
                     position, user_threads)

\* Both evaluations are of the same passing report and have returned.
SameReportTwice ==
    /\ \A e \in Evaluations : HasReturned(e) /\ tasks[e].message = tasks["e1"].message
    /\ tasks["e1"].message[4] = "pass"

\* C26: two evaluations of the same passing report, interleaved in any way,
\* leave what one evaluation leaves: the passed_quizzes rows and the roles of
\* a single evaluation, so one row for the quiz and exactly the reward role.
C26_SameReportConverges ==
    SameReportTwice =>
       /\ passed_quizzes = SingleEvaluation(tasks["e1"].message).passed_quizzes
       /\ roles = SingleEvaluation(tasks["e1"].message).roles

\* Both evaluations went through the reward of the same combination rank.
C26_Witness ==
    /\ SameReportTwice
    /\ \A e \in Evaluations : tasks[e].kind = "Rewarded" /\ tasks[e].rank = "Silver"
    /\ roles["u1"] = {"Silver"}

\* An evaluation that runs while the other has not started leaves what the
\* listener leaves as a whole.
StepsAgreeWithListener ==
    (HasReturned("e1") /\ tasks["e2"].pc = "idle") =>
       /\ passed_quizzes = SingleEvaluation(tasks["e1"].message).passed_quizzes
       /\ roles = SingleEvaluation(tasks["e1"].message).roles
       /\ quiz_attempts = SingleEvaluation(tasks["e1"].message).quiz_attempts
       /\ tasks["e1"].kind = SingleEvaluation(tasks["e1"].message).outcome.kind

\* The awaits of the reward: the role requests and the messages after them.
RewardPoints == {"remove", "add", "announce_rank", "announce", "dm"}

\* C25: when a role request or a message fails while the reward is applied,
\* the evaluation raises nothing: it returns an outcome, and the row of
\* passed_quizzes and the role changes made so far stay as they are.
C25_RewardFailureReturnsOutcome ==
    [][\A e \in Evaluations :
          (ExternalFails(e) /\ tasks[e].pc \in RewardPoints) =>
             /\ HasReturned(e)'
             /\ <<Guild, tasks[e].member, tasks[e].quiz>> \in passed_quizzes'
             /\ passed_quizzes' = passed_quizzes
             /\ roles' = roles]_vars

\* C27: a report fetch that never returns stalls its own evaluation only:
\* every evaluation that waits for its report ends, unless its own fetch is
\* the one that never returns.
C27_HangStallsOnlyItsEvaluation ==
    \A e \in Evaluations : (tasks[e].pc = "waiting") ~> (tasks[e].pc \in {"done", "hung"})

\* The combination ranks in the order the pass reaches them.
ReachedInOrder == Reversed(combination_ranks)

\* The member holds a rank role that stands at or above the role.
HoldsAtLeast(held, role) == \E r \in held \cap GuildRoles : position[r] >= position[role]

\* A passing report of a quiz without reward role was evaluated: the pass
\* over the combination ranks ran.
CombinationPass ==
    /\ now' = now
    /\ outcome'.kind = "Rewarded"
    /\ RankEntry(outcome'.quiz).rank_to_get = None

\* The prerequisites of the i-th rank reached are among the quizzes passed.
QualifiesAt(i, earned) ==
    \A k \in 1..Len(ReachedInOrder[i].quizzes_required) :
       ReachedInOrder[i].quizzes_required[k] \in earned

\* The rank roles the member holds when the pass reaches its i-th rank,
\* every rank reached before it having been rewarded when it qualified.
RECURSIVE HeldWhenReached(_, _, _)
HeldWhenReached(i, held, earned) ==
    IF i = 1 THEN held
    ELSE IF QualifiesAt(i - 1, earned)
         THEN (held \ GuildRoles) \cup {ReachedInOrder[i - 1].rank_to_get}
         ELSE HeldWhenReached(i - 1, held, earned)

\* The first rank from the i-th on that the member stands at or above when
\* it is reached; one past the last rank when there is none.
RECURSIVE StopsAt(_, _, _)
StopsAt(i, held, earned) ==
    IF i > Len(ReachedInOrder) THEN i
    ELSE IF HoldsAtLeast(HeldWhenReached(i, held, earned), ReachedInOrder[i].rank_to_get)
         THEN i
         ELSE StopsAt(i + 1, held, earned)

\* C28: the pass over the combination ranks, last declared first, ends at
\* the first rank the member stands at or above when it is reached: that
\* rank and every rank declared before it gets no row and no role in the
\* pass, passed prerequisites or not; the ranks reached before it are
\* rewarded when their prerequisites are passed.
C28_PassStopsAtHeldRank ==
    [][CombinationPass =>
          LET user == outcome'.member
              earned == GET_PASSED_QUIZZES(passed_quizzes, Guild, user) \cup {outcome'.quiz}
              stop == StopsAt(1, roles[user], earned)
          IN /\ \A i \in stop..Len(ReachedInOrder) :
                   <<Guild, user, ReachedInOrder[i].name>> \notin passed_quizzes' \ passed_quizzes
             /\ \A i \in 1..(stop - 1) :
                   QualifiesAt(i, earned)
                      => <<Guild, user, ReachedInOrder[i].name>> \in passed_quizzes'
             /\ Len(outcome'.granted)
                   = Cardinality({j \in 1..(stop - 1) : QualifiesAt(j, earned)})
             /\ roles'[user] = HeldWhenReached(stop, roles[user], earned)]_vars

\* The pass ended at a rank the member stood at or above while a rank
\* declared before it had its prerequisites passed and was within reach:
\* nothing was granted.
C28_Witness ==
    /\ outcome.kind = "Rewarded"
    /\ outcome.quiz = "SilverGrammar"
    /\ outcome.granted = <<>>
    /\ {<<Guild, outcome.member, "Bronze">>, <<Guild, outcome.member, "SilverGrammar">>}
          \subseteq passed_quizzes
    /\ <<Guild, outcome.member, "SilverByGrammar">> \notin passed_quizzes
    /\ ~HoldsAtLeast(roles[outcome.member], "Silver")

\* A step of the callback that went past the cooldown test and the lookup
\* and returned: no thread was archived, locked or deleted from outside.
ResolvedThread ==
    /\ outcome'.kind = "MenuThread"
    /\ ~(AutoArchive \/ ModeratorLocks \/ ThreadDeleted)

\* C29: the callback creates a thread only when the user has no row in
\* user_threads or the thread of the row is neither cached nor found by its
\* id; when it returns, the row of the user names an existing thread, the
\* one the callback used, also when the thread of the old row was deleted.
C29_MappingNamesExistingThread ==
    [][\A user \in Users :
          (ResolvedThread /\ outcome'.member = user) =>
             /\ Len(threads') = IF LiveMapped(user) THEN Len(threads) ELSE Len(threads) + 1
             /\ LiveMapped(user) => user_threads'[user] = user_threads[user]
             /\ LiveMapped(user)'
             /\ UsesThread(outcome', user_threads'[user][1])]_vars

\* The thread of the user's first row was deleted and the row now names the
\* thread the callback created in its place.
C29_Witness ==
    \E user \in Users :
       /\ outcome.kind = "MenuThread" /\ outcome.member = user
       /\ Len(threads) = 2
       /\ threads[1].owner = user /\ ~threads[1].exists
       /\ user_threads[user] = <<2>> /\ threads[2].exists

\* The requests of the callback: the edit that reopens the thread, and the
\* first message sent in the thread.
EditRequests(o) == {i \in 1..Len(o.sent) : o.sent[i][1] = "edit"}

ThreadMessages(o) == {i \in 1..Len(o.sent) : o.sent[i][1] = "thread"}

\* C30: a thread that is archived or locked when the callback resolves it is
\* unlocked and unarchived before it is used; the quiz bot and the member
\* are added and the command is sent in a thread that is neither archived
\* nor locked.
C30_ReactivatedBeforeReuse ==
    [][\A user \in Users :
          (ResolvedThread /\ outcome'.member = user) =>
             LET thread_id == user_threads'[user][1]
             IN /\ ~threads'[thread_id].locked /\ ~threads'[thread_id].archived
                /\ {KOTOBA_BOT_ID, user} \subseteq threads'[thread_id].members
                /\ threads'[thread_id].last_message = "cached"
                /\ (LiveMapped(user) /\ (threads[thread_id].locked \/ threads[thread_id].archived))
                      => /\ EditRequests(outcome') # {}
                         /\ \A i \in EditRequests(outcome'), j \in ThreadMessages(outcome') :
                               i < j /\ outcome'.sent[i][2] = thread_id]_vars

\* The callback reopened a thread before it wrote to it.
C30_Witness ==
    \E user \in Users :
       /\ outcome.kind = "MenuThread" /\ outcome.member = user
       /\ EditRequests(outcome) # {}
       /\ LiveMapped(user)
       /\ ~threads[user_threads[user][1]].locked /\ ~threads[user_threads[user][1]].archived

\* The evaluation is inside "async with kotoba_request_lock": in the settling
\* delay, or with its request in flight.
InsideLock(e) == tasks[e].pc \in {"settling", "fetching", "hung"}

FetchInFlight(e) == tasks[e].pc \in {"fetching", "hung"}

\* C31: report fetches are serialized by the one lock: at most one evaluation
\* is inside the lock and so at most one fetch is in flight, the lock is held
\* by exactly the evaluation inside it, a fetch starts only from the settling
\* delay of the evaluation that holds the lock, the lock is free after the
\* fetch returned or failed, and as long as no fetch hangs for ever every
\* evaluation that waits for the lock gets its fetch.
C31_FetchesAreSerialized ==
    /\ [](\A e, f \in Evaluations : (InsideLock(e) /\ InsideLock(f)) => e = f)
    /\ [](\A e \in Evaluations : InsideLock(e) <=> kotoba_request_lock = e)
    /\ [][\A e \in Evaluations :
            /\ (~FetchInFlight(e) /\ FetchInFlight(e)') =>
                  /\ tasks[e].pc = "settling"
                  /\ kotoba_request_lock = e /\ kotoba_request_lock' = e
            /\ (tasks[e].pc = "fetching" /\ tasks'[e].pc \notin {"fetching", "hung"}) =>
                  kotoba_request_lock' = None]_vars
    /\ (\A e \in Evaluations : []~(tasks[e].pc = "hung")) =>
          \A e \in Evaluations : (tasks[e].pc = "waiting") ~> (tasks[e].pc = "fetching")

\* One fetch failed and released the lock, and the other evaluation, which
\* arrived meanwhile, has its fetch in flight.
C31_Witness ==
    \E e, f \in Evaluations :
       /\ tasks[e].kind = "FetchRaised"
       /\ tasks[f].pc = "fetching" /\ kotoba_request_lock = f

\* The role reward_user was about to assign when the evaluation ended.
MissingRole(e) == get_role(RankEntry(tasks[e].rank).rank_to_get)

\* The evaluation ran alone, recorded the pass and raised inside reward_user
\* before add_roles assigned the role.
InterruptedReward(e) ==
    /\ tasks[e].pc = "done" /\ tasks[e].kind = "Raised"
    /\ tasks[e].rank # None
    /\ \A f \in Evaluations \ {e} : tasks[f].pc = "idle"
    /\ <<Guild, tasks[e].member, tasks[e].quiz>> \in passed_quizzes
    /\ MissingRole(e) # None
    /\ MissingRole(e) \notin roles[tasks[e].member]

\* What a later evaluation of a passing report of the same quiz leaves.
Reevaluated(e) ==
    level_up_routine(PassingReport(RankNamed(tasks[e].quiz), tasks[e].member), now,
                     quiz_attempts, passed_quizzes, roles, position, user_threads)

\* C32: after an evaluation that recorded the pass and failed before the
\* reward role was assigned, the next evaluation of a passing report of the
\* same quiz assigns the missing role and adds no row to passed_quizzes.
C32_ReevaluationRepairsReward ==
    \A e \in Evaluations :
       InterruptedReward(e) =>
          /\ MissingRole(e) \in Reevaluated(e).roles[tasks[e].member]
          /\ Reevaluated(e).passed_quizzes = passed_quizzes

\* The listener got the report of the quiz service: the message was a report
\* of the quiz bot and the fetch returned.
ReportEvaluated(o) == o.kind \notin {None, "Ignored", "InvalidCommand", "NoReport", "FetchRaised"}

\* The state of the evaluation when the listener is left: an evaluation that
\* matches no rank or lacks the required role is rejected, and one that is
\* left by an exception has reached no terminal state.
TerminalState(o) ==
    CASE o.kind = "SkippedAlreadyHeld" -> "Skipped-AlreadyHeld"
      [] o.kind = "Rewarded" -> "Rewarded"
      [] o.kind = "CooldownCharged" -> "CooldownCharged"
      [] o.kind \in {"Rejected", "RequiredRoleMissing", "NoMatchingRank"} -> "Rejected"
      [] OTHER -> "Pending"

\* C33: every evaluation of a fetched report ends in one of the four terminal
\* states, and what it wrote is what that state alone writes: a reward
\* records no attempt, a charged cooldown grants nothing and records no pass,
\* a skipped or rejected evaluation writes nothing.
C33_EndsInOneTerminalState ==
    [][ReportEvaluated(outcome') =>
          /\ TerminalState(outcome') # "Pending"
          /\ TerminalState(outcome') = "Rewarded" => quiz_attempts' = quiz_attempts
          /\ TerminalState(outcome') = "CooldownCharged" =>
                passed_quizzes' = passed_quizzes /\ roles' = roles
          /\ TerminalState(outcome') \in {"Skipped-AlreadyHeld", "Rejected"} =>
                UNCHANGED <<quiz_attempts, passed_quizzes, roles>>]_vars

\* Rank structures in which two ranks have the decks and the index mode of
\* Bronze, next to the configured one.
BronzeAgain == QuizRank("BronzeAgain", "bronze", NoRange, "Silver", None, FALSE)

RankStructures ==
    {rank_structure, <<BronzeAgain>> \o rank_structure, rank_structure \o <<BronzeAgain>>,
     Reversed(rank_structure)}

\* The deck names of a report, and its index mode: the first deck carries a
\* start index.
ReportDeckNames(decks) ==
    {IF HasKey(decks[i], "shortName") THEN decks[i].shortName ELSE "" : i \in 1..Len(decks)}

ReportIndexMode(decks) == HasKey(decks[1], "startIndex") /\ decks[1].startIndex # 0

\* The ranks of a structure whose deck-name set and index mode are the report's.
MatchingRanks(structure, decks) ==
    {i \in 1..Len(structure) :
        /\ structure[i].decks = ReportDeckNames(decks)
        /\ (structure[i].deck_range # NoRange) = ReportIndexMode(decks)}

FirstMatchWins(structure, decks, resolved) ==
    IF MatchingRanks(structure, decks) = {} THEN resolved = <<>>
    ELSE \E i \in MatchingRanks(structure, decks) :
            /\ resolved = <<structure[i]>>
            /\ \A j \in MatchingRanks(structure, decks) : i <= j
            /\ ~structure[i].combination_rank

\* C34: for every report the listener evaluates and every rank structure,
\* the rank resolved is the first rank in declaration order whose deck-name
\* set and index mode equal the report's, and none when no rank matches; it
\* is never a combination rank; the listener evaluates the report for that
\* rank and drops it when there is none.
C34_FirstMatchingRankIsResolved ==
    [][/\ \A structure \in RankStructures :
             FirstMatchWins(structure, outcome'.message[2],
                            quiz_data_in(structure, DeckReport(outcome'.message[2])))
       /\ (outcome'.kind = "NoMatchingRank") <=>
             (MatchingRanks(rank_structure, outcome'.message[2]) = {})
       /\ outcome'.kind # "NoMatchingRank" =>
             \E i \in MatchingRanks(rank_structure, outcome'.message[2]) :
                outcome'.quiz = rank_structure[i].name]_vars

\* A report of two decks, one of them the deck of SilverGrammar with its
\* index range, matched no rank, after a report of SilverGrammar alone was
\* evaluated for that rank.
C34_Witness ==
    /\ outcome.kind = "NoMatchingRank"
    /\ Len(outcome.message[2]) = 2
    /\ outcome.message[2][1].shortName = "sgrammar"
    /\ ReportIndexMode(outcome.message[2])
    /\ <<Guild, "u1", "SilverGrammar">> \in passed_quizzes

\* The role the evaluation assigned last.
RewardedRole(e) == get_role(RankEntry(tasks[e].rank).rank_to_get)

\* Both evaluations are of passing reports of the same member, both have
\* finished with a reward, and they assigned the roles of two different ranks.
TwoRanksRewarded ==
    /\ \A e \in Evaluations : tasks[e].pc = "done" /\ tasks[e].kind = "Rewarded"
    /\ tasks["e1"].member = tasks["e2"].member
    /\ \A e \in Evaluations : RewardedRole(e) # None
    /\ RewardedRole("e1") # RewardedRole("e2")

\* C35: when two evaluations of passing reports of one member, for two
\* different ranks, have both finished, the member holds exactly one rank
\* role, the higher of the two, whatever the interleaving was.
C35_ConcurrentRewardsKeepOneRole ==
    TwoRanksRewarded =>
       \E e \in Evaluations :
          /\ \A f \in Evaluations : position[RewardedRole(e)] >= position[RewardedRole(f)]
          /\ RankRolesOf(roles[tasks[e].member]) = {RewardedRole(e)}

\* The quiz threads of a member that exist.
ThreadsOwnedBy(user) == {i \in 1..Len(threads) : threads[i].exists /\ threads[i].owner = user}

\* No callback of the member is between create_thread and the upsert.
MappingSettled(user) ==
    \A s \in Selections : selections[s].user = user => selections[s].pc # "upsert"

\* C36: whatever the interleaving of two selections of one member, the
\* member has at most one quiz thread, and once the upsert is through the
\* mapping of the member names that thread.
C36_ConcurrentSelectionsCreateOneThread ==
    \A user \in Users :
       /\ Cardinality(ThreadsOwnedBy(user)) <= 1
       /\ (MappingSettled(user) /\ ThreadsOwnedBy(user) # {}) =>
             \E i \in ThreadsOwnedBy(user) : user_threads[user] = <<i>>

\* A pass of the sweeper, completed or not.
SweepPass == now' = now /\ outcome'.kind \in {"Swept", "SweepRaised"}

\* The last message of the thread was deleted and the thread is younger
\* than 14 days.
YoungWithoutLastMessage(thread, at) ==
    /\ thread.last_message = "deleted"
    /\ ~(thread.created_at < at - InactiveFor)

\* The thread is due: its last message, or its creation when the message
\* was deleted, is more than 14 days old.
DueForDeletion(thread, at) ==
    \/ thread.last_message = "deleted" /\ thread.created_at < at - InactiveFor
    \/ thread.last_message \in {"cached", "uncached"} /\ thread.last_message_at < at - InactiveFor

\* C37: a pass of the sweeper never aborts: it completes, the loop keeps
\* running, every active thread whose last message was deleted and that is
\* younger than 14 days is retained as it was, and the threads that are due
\* are deleted in the same pass, wherever they stand in the channel.
C37_SweepNeverAborts ==
    [][SweepPass =>
          /\ outcome'.kind = "Swept"
          /\ sweeper' = "running"
          /\ \A i \in 1..Len(threads) :
                ActiveThread(threads[i]) =>
                   /\ YoungWithoutLastMessage(threads[i], now) => threads'[i] = threads[i]
                   /\ DueForDeletion(threads[i], now) => ~threads'[i].exists]_vars

\* C38: with the attempts as they are, at every later time and for every
\* rank of the menu, list_role_commands shows the member on cooldown exactly
\* when is_on_cooldown finds the member on cooldown, and the time it shows
\* is the Sunday 00:00 that is_on_cooldown announces.
C38_DisplayedCooldownIsEnforcedCooldown ==
    \A user \in Users : \A quiz_name \in MenuOptions : \A later \in LaterTimes :
       list_role_commands(quiz_attempts, later, Guild, user, RankNamed(quiz_name))
          = CooldownAt(later, user, quiz_name)

\* The rank has a cooldown and the member is inside its window.
OnCooldownFor(user, rank) == rank_has_cooldown(rank) /\ InsideCooldownWindow(user, rank)

\* C39: every step of a callback of the menu whose member is on cooldown for
\* the selected rank leaves the threads and the table user_threads as they
\* are; the callback resolves no thread, gets no further than the cooldown
\* notice, and ends with that notice as its outcome.
C39_CooldownSelectionTouchesNoThread ==
    [][\A s \in Selections :
          (/\ selections'[s] # selections[s]
           /\ OnCooldownFor(selections'[s].user, selections'[s].rank)) =>
             /\ UNCHANGED <<threads, user_threads>>
             /\ selections'[s].pc \in {"cooldown", "notice", "done"}
             /\ selections'[s].thread = 0
             /\ selections'[s].pc = "done" => selections'[s].kind = "MenuOnCooldown"]_vars

\* A selection of a member on cooldown ended with the notice while the other
\* selection, of the same member for another rank, got the member's thread.
C39_Witness ==
    \E s, t \in Selections :
       /\ selections[s].kind = "MenuOnCooldown"
       /\ selections[t].user = selections[s].user
       /\ selections[t].kind = "MenuThread"
       /\ user_threads[selections[s].user] = <<selections[t].thread>>

(***************************************************************************)
(* is_command_input_valid with its timeouts: what a member types in a      *)
(* week with and without an attempt behind them, in their own thread and   *)
(* elsewhere, and what member.timeout answers.                             *)
(***************************************************************************)
TimeoutMinutes == 2

\* member.timeout: Discord takes the request, or refuses it (403) for a
\* member the bot may not moderate.
TimeoutResponses == {"ok", "Forbidden"}

\* timeout_member: the end of the member's timeout, utcnow() and the minutes
\* added to it; <<>> when discord.Forbidden is passed over.
timeout_member(at, duration_in_minutes, response) ==
    IF response = "Forbidden" THEN <<>> ELSE <<at, duration_in_minutes>>

NextWednesdayTen == WednesdayTen + 7 * TicksPerDay

\* No attempt, or one attempt of u1 a week ago or an hour ago.
InputAttempts ==
    {<<>>} \cup { ADD_QUIZ_ATTEMPT(<<>>, Guild, "u1", quiz_name, created_at) :
                     quiz_name \in {"Bronze", "SilverGrammar"},
                     created_at \in {WednesdayTen, NextWednesdayTen - 1} }

InputInit ==
    /\ VerifierIdle
    /\ quiz_attempts \in InputAttempts
    /\ passed_quizzes = {}
    /\ roles = [user \in Users |-> {}]
    /\ outcome = NoOutcome
    /\ \/ /\ user_threads = [user \in Users |-> <<>>]
          /\ threads = <<>>
       \/ /\ user_threads = [user \in Users |-> IF user = "u1" THEN <<1>> ELSE <<>>]
          /\ threads = <<NewThread(Guild, "u1", WednesdayTen)>>
    /\ sweeper = "running"
    /\ NoTasks
    /\ now = NextWednesdayTen
    /\ position = ConfiguredOrder

\* Typed by either member in the thread of u1, when there is one, or elsewhere.
InputCommands ==
    { TypedCommand(<<"typed", user, channel>> \o content, user, channel, content) :
        user \in Users, channel \in {NoChannel} \cup DOMAIN threads, content \in Contents }

\* The report of the quiz bot, and a command another bot writes.
BotMessages ==
    { PassingReport(RankNamed("Bronze"), "u1"),
      Message(<<"bot command">>, "otherbot", TRUE, TRUE, NoChannel, <<"k!quiz", "svocab", "mc">>,
              None, FALSE, <<>>) }

\* The listener up to the return of is_command_input_valid.
CheckCommandInput(message) ==
    /\ message.author # BOT_USER
    /\ message.in_guild
    /\ message.author = KOTOBA_BOT_ID \/ HasQuizPrefix(message.content)
    /\ \E input \in {is_command_input_valid(message, quiz_attempts, now, user_threads)},
          response \in TimeoutResponses :
          outcome' = [ kind |-> "CommandInput", message |-> message, valid |-> input.valid,
                       timeout_reason |-> input.timeout_reason, sent |-> input.sent,
                       timed_out_until |->
                           IF input.timeout_reason = None THEN <<>>
                           ELSE timeout_member(now, TimeoutMinutes, response) ]
    /\ UNCHANGED <<now, quiz_attempts, passed_quizzes, roles, position, user_threads, threads>>
    /\ UNCHANGED verify_vars
    /\ UNCHANGED background_vars

MemberTypes == \E message \in InputCommands : CheckCommandInput(message)

BotWrites == \E message \in BotMessages : CheckCommandInput(message)

InputNext ==
    \/ MemberTypes
    \/ BotWrites

SpecInput == InputInit /\ [][InputNext]_vars

\* The rank whose configured command the content is, None when it is none.
CommandedQuiz(content) ==
    IF \E rank \in QuizRanks : rank.command = content
    THEN (CHOOSE rank \in QuizRanks : rank.command = content).name
    ELSE None

\* The message is in the thread the table user_threads maps its author to.
InOwnThread(message) ==
    /\ user_threads[message.author] # <<>>
    /\ message.channel = user_threads[message.author][1]

NamesRestrictedQuiz(content) ==
    \E i \in 1..Len(restricted_quiz_names) : restricted_quiz_names[i] \in Words(content)

\* Not on cooldown for the commanded quiz, and either the exact command in
\* the own thread or, elsewhere, no command and no restricted quiz name.
Acceptable(message) ==
    /\ ~OnCooldownFor(message.author, CommandedQuiz(message.content))
    /\ \/ InOwnThread(message) /\ CommandedQuiz(message.content) # None
       \/ /\ ~InOwnThread(message)
          /\ CommandedQuiz(message.content) = None
          /\ ~NamesRestrictedQuiz(message.content)

\* The message of a bot is accepted; the command of a member is accepted
\* exactly when it is acceptable.
AcceptedWhenAcceptable ==
    outcome.kind = "CommandInput" =>
        IF outcome.message.author_bot THEN outcome.valid
        ELSE outcome.valid <=> Acceptable(outcome.message)

\* The author of a rejected message is timed out for two minutes from now.
RejectedIsTimedOut ==
    (outcome.kind = "CommandInput" /\ ~outcome.valid) =>
        outcome.timed_out_until = <<now, TimeoutMinutes>>

\* C40: is_command_input_valid accepts every message of a bot; it accepts the
\* quiz command of a member exactly when the member is not on cooldown for
\* the commanded quiz and the command is either the exact command of a rank
\* typed in the member's own thread or, outside it, no rank's command and
\* without a restricted quiz name; the author of every rejected message is
\* timed out for two minutes.
C40_CommandInputIsValidated == AcceptedWhenAcceptable /\ RejectedIsTimedOut
====
